---- MODULE Spec2Model ----
(***************************************************************************)
(* The DWG entity converter of src/unnamed/part_000 (dwgParser): parseDwg  *)
(* builds the module-level blockDefinitions map from the block records of  *)
(* a parsed database and folds convertEntity over the top-level entities;  *)
(* convertEntity dispatches on the entity type and expands INSERTs         *)
(* recursively.  The recursion is modelled by an explicit stack of         *)
(* activation frames, one per running loop over a member list.             *)
(*                                                                         *)
(* Numbers: scales are integers; a length (a coordinate, a radius, a text  *)
(* height) and an axis ratio are fixed-point, the integer c standing for   *)
(* c / Unit; an angle is a whole number of quarter turns (q stands for     *)
(* q*PI/2 radians), for which Math.cos and Math.sin are exact up to        *)
(* rounding.                                                               *)
(*                                                                         *)
(* Beside the converter: the editor store (editorStore.ts) with the        *)
(* editor area that reads the active file (SpecStore, SpecEditor), and     *)
(* the FEA editor (SpecFea), both of part_003.  Each specification moves   *)
(* the variables of its component and leaves the others as constructed.    *)
(***************************************************************************)
EXTENDS Integers, Sequences, FiniteSets, TLC

VARIABLES
    queue,             \* the parsed files still to be handed to parseDwg, in call order
    pc,                \* where the running parseDwg call is: "idle", "build", "convert"
    db,                \* the DwgDatabase of the running call (line 77)
    blockDefinitions,  \* the module-level Map<string, DwgEntity[]> (line 45)
    bi,                \* index of the block record the build loop is at (line 93)
    stack,             \* activations: stack[1] is parseDwg's loop, the others INSERT loops
    results,           \* what each finished call returned or threw, in call order
    calls,             \* the parseDwg calls in flight at once: each call's own state
    running,           \* the call that holds the thread (0: none, all are suspended)
    libreDwgInstance,  \* the module-level LibreDwg instance (line 28), 0 for null
    openFiles,         \* editor store: the paths of the open files, in tab order
    activeFilePath,    \* editor store: the path of the active file, "" for null
    content,           \* EditorArea: the content on display
    fileType,          \* EditorArea: the kind of viewer the content is shown in
    loading,           \* EditorArea: the loading flag
    loads,             \* EditorArea: the paths of the reads awaited, in the order started
    model,             \* FeaEditor: the model, its nodes, elements and loads
    mode,              \* FeaEditor: "MODELING" or "ANALYSIS_RESULT"
    activeTool,        \* FeaEditor: "SELECT", "NODE" or "ELEMENT"
    selectedItems,     \* FeaEditor: the selected nodes and elements
    tempNodeId         \* FeaEditor: the first node of the element being drawn, -1 for null

\* the variables of the converter run call after call
converter == <<queue, pc, db, blockDefinitions, bi, stack, results>>

\* the variables of the calls in flight at once
inFlight == <<calls, running, libreDwgInstance>>

\* the variables of the editor store and the editor area
editor == <<openFiles, activeFilePath, content, fileType, loading, loads>>

\* the variables of the FEA editor
fea == <<model, mode, activeTool, selectedItems, tempNodeId>>

ui == <<editor, fea>>

vars == <<queue, pc, db, blockDefinitions, bi, stack, results, calls, running,
          libreDwgInstance, openFiles, activeFilePath, content, fileType, loading, loads,
          model, mode, activeTool, selectedItems, tempNodeId>>

----------------------------------------------------------------------------
(* Program constants and bounds *)

MaxDepth == 10

ChainLen == 15

\* the resolution of lengths: model units per drawing unit
Unit == 20000

----------------------------------------------------------------------------
(* Values *)

Has(e, f) == f \in DOMAIN e

Null == <<>>

P3(x, y, z) == [x |-> x, y |-> y, z |-> z]

P2(x, y) == [x |-> x, y |-> y]

Origin == P3(0, 0, 0)

\* the points (x, y) and (x, y, z) given in drawing units
At2(x, y) == P2(x * Unit, y * Unit)

At3(x, y, z) == P3(x * Unit, y * Unit, z * Unit)

\* Math.cos / Math.sin at q quarter turns
Cos(q) == CASE q % 4 = 0 -> 1 [] q % 4 = 1 -> 0 [] q % 4 = 2 -> -1 [] OTHER -> 0

Sin(q) == CASE q % 4 = 0 -> 0 [] q % 4 = 1 -> 1 [] q % 4 = 2 -> 0 [] OTHER -> -1

\* String.prototype.toUpperCase on the names and type tags that occur
toUpperCase(s) ==
    CASE s = "col" -> "COL"
      [] s = "Col" -> "COL"
      [] s = "none" -> "NONE"
      [] s = "line" -> "LINE"
      [] s = "insert" -> "INSERT"
      [] OTHER -> s

\* a push that puts the new items in front
PushFront(arr, items) == items \o arr

\* a push that loses what was collected when a conversion returns null
PushOrReset(arr, items) == IF items = <<>> THEN <<>> ELSE arr \o items

\* lines 116-122 and 488-494: if (converted) result.push(...converted)
Push(arr, items) == arr \o items

----------------------------------------------------------------------------
(* transformPoint, lines 138-167 *)

\* a transformPoint that loses the z of the point
FlatTransform(point, offset, rotation, scaleX, scaleY, scaleZ) ==
    LET x == point.x * scaleX
        y == point.y * scaleY
    IN  [x |-> x * Cos(rotation) - y * Sin(rotation) + offset.x,
         y |-> x * Sin(rotation) + y * Cos(rotation) + offset.y,
         z |-> offset.z]

\* a transformPoint that translates before it scales and rotates
TranslateFirst(point, offset, rotation, scaleX, scaleY, scaleZ) ==
    LET x == (point.x + offset.x) * scaleX
        y == (point.y + offset.y) * scaleY
        z == ((IF Has(point, "z") THEN point.z ELSE 0) + offset.z) * scaleZ
    IN  [x |-> x * Cos(rotation) - y * Sin(rotation),
         y |-> x * Sin(rotation) + y * Cos(rotation),
         z |-> z]

transformPoint(point, offset, rotation, scaleX, scaleY, scaleZ) ==
    LET x == point.x * scaleX
        y == point.y * scaleY
        z == (IF Has(point, "z") THEN point.z ELSE 0) * scaleZ
        newX == x * Cos(rotation) - y * Sin(rotation)
        newY == x * Sin(rotation) + y * Cos(rotation)
        rx == IF rotation # 0 THEN newX ELSE x
        ry == IF rotation # 0 THEN newY ELSE y
    IN  [x |-> rx + offset.x, y |-> ry + offset.y, z |-> z + offset.z]

----------------------------------------------------------------------------
(* The inbound transform of a convertEntity call: its parameters offset,   *)
(* rotation, scaleX, scaleY, scaleZ (lines 171-175) as one record          *)

Transform(offset, rotation, scaleX, scaleY, scaleZ) ==
    [offset |-> offset, rotation |-> rotation,
     scaleX |-> scaleX, scaleY |-> scaleY, scaleZ |-> scaleZ]

\* the arguments parseDwg passes for a top-level entity, line 115
Identity == Transform(Origin, 0, 1, 1, 1)

apply(t, point) ==
    transformPoint(point, t.offset, t.rotation, t.scaleX, t.scaleY, t.scaleZ)

----------------------------------------------------------------------------
(* convertEntity, lines 169-538: the cases that return without recursion   *)

\* line 178: if (!entity || !entity.type) return null
hasType(entity) == Has(entity, "type") /\ entity.type # ""

\* a depth guard with the limit two too high, and one with >= for >
TooDeepLate(depth) == depth > MaxDepth + 2

TooDeepEarly(depth) == depth >= MaxDepth

\* line 179: if (depth > 10) return null
tooDeep(depth) == depth > MaxDepth

\* lines 185-196
convertLine(e, t) ==
    IF Has(e, "startPoint") /\ Has(e, "endPoint")
    THEN << [type |-> "LINE",
             vertices |-> << apply(t, e.startPoint), apply(t, e.endPoint) >>] >>
    ELSE Null

\* a SOLID emitted as soon as it has two corners
SolidOfTwoCorners(e, t) ==
    LET corner(k) == IF Has(e, k) THEN << apply(t, P3(e[k].x, e[k].y, 0)) >> ELSE <<>>
        corners == corner("corner1") \o corner("corner2")
                     \o corner("corner3") \o corner("corner4")
    IN  IF Len(corners) >= 2
        THEN << [type |-> "POLYLINE", vertices |-> corners, shape |-> TRUE] >>
        ELSE Null

\* lines 311-327
convertSolid(e, t) ==
    LET corner(k) == IF Has(e, k) THEN << apply(t, P3(e[k].x, e[k].y, 0)) >> ELSE <<>>
        corners == corner("corner1") \o corner("corner2")
                     \o corner("corner3") \o corner("corner4")
    IN  IF Len(corners) >= 3
        THEN << [type |-> "POLYLINE", vertices |-> corners, shape |-> TRUE] >>
        ELSE Null

\* a flag test that takes every bit for the closed bit
AnyBitCloses(e) == Has(e, "flag") /\ e.flag # 0

\* lines 200, 214, 232: (e.flag & 1) === 1
isClosed(e) == Has(e, "flag") /\ e.flag % 2 = 1

\* v.point?.f ?? v.f, absent when neither is there
vertexField(v, f) ==
    IF Has(v, "point") /\ Has(v.point, f) THEN << v.point[f] >>
    ELSE IF Has(v, f) THEN << v[f] >> ELSE <<>>

\* a ?? d for an optional value a
orDefault(a, d) == IF a = <<>> THEN d ELSE a[1]

\* e.f as an optional value
field(e, f) == IF Has(e, f) THEN << e[f] >> ELSE <<>>

hasItems(e, f) == Has(e, f) /\ Len(e[f]) > 0

\* lines 198-210
convertLwPolyline(e, t) ==
    IF hasItems(e, "vertices")
    THEN << [type |-> "POLYLINE",
             vertices |-> [k \in DOMAIN e.vertices |->
                 apply(t, P3(orDefault(field(e.vertices[k], "x"), 0),
                             orDefault(field(e.vertices[k], "y"), 0),
                             orDefault(field(e, "elevation"), 0)))],
             shape |-> isClosed(e)] >>
    ELSE Null

\* lines 212-228
convertPolyline2d(e, t) ==
    IF hasItems(e, "vertices")
    THEN << [type |-> "POLYLINE",
             vertices |-> [k \in DOMAIN e.vertices |->
                 apply(t, P3(orDefault(vertexField(e.vertices[k], "x"), 0),
                             orDefault(vertexField(e.vertices[k], "y"), 0),
                             IF Has(e.vertices[k], "point") /\ Has(e.vertices[k].point, "z")
                             THEN e.vertices[k].point.z
                             ELSE orDefault(field(e, "elevation"), 0)))],
             shape |-> isClosed(e)] >>
    ELSE Null

\* lines 230-246
convertPolyline3d(e, t) ==
    IF hasItems(e, "vertices")
    THEN << [type |-> "POLYLINE",
             vertices |-> [k \in DOMAIN e.vertices |->
                 apply(t, P3(orDefault(vertexField(e.vertices[k], "x"), 0),
                             orDefault(vertexField(e.vertices[k], "y"), 0),
                             orDefault(vertexField(e.vertices[k], "z"), 0)))],
             shape |-> isClosed(e)] >>
    ELSE Null

\* lines 294-296 and 302-304: the points of a spline as an open polyline
openPolyline(points, t) ==
    << [type |-> "POLYLINE",
        vertices |-> [k \in DOMAIN points |->
            apply(t, P3(orDefault(field(points[k], "x"), 0),
                        orDefault(field(points[k], "y"), 0),
                        orDefault(field(points[k], "z"), 0)))],
        shape |-> FALSE] >>

\* lines 290-309
convertSpline(e, t) ==
    IF hasItems(e, "controlPoints") THEN openPolyline(e.controlPoints, t)
    ELSE IF hasItems(e, "fitPoints") THEN openPolyline(e.fitPoints, t)
    ELSE Null

\* lines 329-338
convertPoint(e, t) ==
    IF Has(e, "location") \/ Has(e, "point")
    THEN LET pt == IF Has(e, "location") THEN e.location ELSE e.point
         IN  << [type |-> "POINT",
                 vertices |-> << apply(t, P3(pt.x, pt.y, IF Has(pt, "z") THEN pt.z ELSE 0)) >>] >>
    ELSE Null

\* lines 340-355
convert3dFace(e, t) ==
    LET corner(k) == IF Has(e, k) THEN << apply(t, e[k]) >> ELSE <<>>
        points == corner("corner1") \o corner("corner2")
                    \o corner("corner3") \o corner("corner4")
    IN  IF Len(points) >= 3
        THEN << [type |-> "POLYLINE", vertices |-> points, shape |-> TRUE] >>
        ELSE Null

\* lines 502-516
convertDimension(e, t) ==
    IF Has(e, "defPoint") /\ Has(e, "textMidPoint")
    THEN << [type |-> "LINE",
             vertices |-> << apply(t, e.defPoint), apply(t, e.textMidPoint) >>] >>
    ELSE Null

\* line 524: const len = 10000, in drawing units
RayLength == 10000

\* lines 518-534
convertRay(e, t) ==
    IF Has(e, "basePoint") /\ Has(e, "unitDirection")
    THEN LET start == apply(t, e.basePoint)
             dir == e.unitDirection
             len == RayLength * Unit
         IN  << [type |-> "LINE",
                 vertices |-> << start,
                     [x |-> start.x + dir.x * len, y |-> start.y + dir.y * len,
                      z |-> start.z + (IF Has(dir, "z") THEN dir.z ELSE 0) * len] >>] >>
    ELSE Null

\* e.f || d for a number: the default also replaces a 0
truthyOr(e, f, d) == IF Has(e, f) /\ e[f] # 0 THEN e[f] ELSE d

\* e.f ?? d: the default replaces an absent field only
valueOr(e, f, d) == IF Has(e, f) THEN e[f] ELSE d

\* Math.max
max(a, b) == IF a >= b THEN a ELSE b

\* Math.PI * 2 in quarter turns
TwoPi == 4

\* the default text height 2.5, lines 364 and 384
DefaultTextHeight == (5 * Unit) \div 2

\* lines 248-258
convertCircle(e, t) ==
    IF Has(e, "center") /\ truthyOr(e, "radius", 0) # 0
    THEN << [type |-> "CIRCLE",
             center |-> apply(t, e.center),
             radius |-> e.radius * max(t.scaleX, t.scaleY)] >>
    ELSE Null

\* lines 260-272
convertArc(e, t) ==
    IF Has(e, "center") /\ truthyOr(e, "radius", 0) # 0
    THEN << [type |-> "ARC",
             center |-> apply(t, e.center),
             radius |-> e.radius * max(t.scaleX, t.scaleY),
             startAngle |-> truthyOr(e, "startAngle", 0) + t.rotation,
             endAngle |-> truthyOr(e, "endAngle", TwoPi) + t.rotation] >>
    ELSE Null

\* lines 274-288; the axis ratio 1 is Unit
convertEllipse(e, t) ==
    IF Has(e, "center") /\ Has(e, "majorAxisEndPoint")
    THEN << [type |-> "ELLIPSE",
             center |-> apply(t, e.center),
             majorAxisEndPoint |->
                 transformPoint(e.majorAxisEndPoint, [x |-> 0, y |-> 0, z |-> 0],
                                t.rotation, t.scaleX, t.scaleY, t.scaleZ),
             axisRatio |-> truthyOr(e, "axisRatio", Unit),
             startAngle |-> truthyOr(e, "startAngle", 0),
             endAngle |-> truthyOr(e, "endAngle", TwoPi)] >>
    ELSE Null

\* a text is the sequence of its characters; e.text is truthy when it is
\* not the empty string
hasText(e) == Has(e, "text") /\ Len(e.text) > 0

\* lines 357-369
convertText(e, t) ==
    IF hasText(e) /\ Has(e, "startPoint")
    THEN << [type |-> "TEXT",
             text |-> e.text,
             position |-> apply(t, e.startPoint),
             textHeight |-> truthyOr(e, "textHeight", DefaultTextHeight)
                               * max(t.scaleX, t.scaleY),
             rotation |-> truthyOr(e, "rotation", 0) + t.rotation] >>
    ELSE Null

\* the character class [A-Za-z]
Letters ==
    { "A", "B", "C", "D", "E", "F", "G", "H", "I", "J", "K", "L", "M", "N", "O", "P", "Q", "R", "S", "T", "U", "V", "W", "X", "Y", "Z",
      "a", "b", "c", "d", "e", "f", "g", "h", "i", "j", "k", "l", "m", "n", "o", "p", "q", "r", "s", "t", "u", "v", "w", "x", "y", "z" }

\* the position of the first c in s at or after position k, 0 when there is none
RECURSIVE indexFrom(_, _, _)
indexFrom(s, c, k) ==
    IF k > Len(s) THEN 0 ELSE IF s[k] = c THEN k ELSE indexFrom(s, c, k + 1)

\* line 376: .replace(/\\P/g, '\n')
RECURSIVE paragraphBreaks(_)
paragraphBreaks(s) ==
    IF Len(s) = 0 THEN <<>>
    ELSE IF Len(s) >= 2 /\ s[1] = "\\" /\ s[2] = "P"
         THEN <<"\n">> \o paragraphBreaks(SubSeq(s, 3, Len(s)))
         ELSE <<s[1]>> \o paragraphBreaks(Tail(s))

\* line 377: .replace(/\\[A-Za-z][^;]*;/g, '')
RECURSIVE dropCodes(_)
dropCodes(s) ==
    IF Len(s) = 0 THEN <<>>
    ELSE IF Len(s) >= 2 /\ s[1] = "\\" /\ s[2] \in Letters /\ indexFrom(s, ";", 3) > 0
         THEN dropCodes(SubSeq(s, indexFrom(s, ";", 3) + 1, Len(s)))
         ELSE <<s[1]>> \o dropCodes(Tail(s))

\* line 378: .replace(/\{[^}]*\}/g, '')
RECURSIVE dropGroups(_)
dropGroups(s) ==
    IF Len(s) = 0 THEN <<>>
    ELSE IF s[1] = "{" /\ indexFrom(s, "}", 2) > 0
         THEN dropGroups(SubSeq(s, indexFrom(s, "}", 2) + 1, Len(s)))
         ELSE <<s[1]>> \o dropGroups(Tail(s))

\* line 379: .replace(/%%[cuod]/gi, '')
RECURSIVE dropSymbols(_)
dropSymbols(s) ==
    IF Len(s) = 0 THEN <<>>
    ELSE IF Len(s) >= 3 /\ s[1] = "%" /\ s[2] = "%"
              /\ s[3] \in {"c", "u", "o", "d", "C", "U", "O", "D"}
         THEN dropSymbols(SubSeq(s, 4, Len(s)))
         ELSE <<s[1]>> \o dropSymbols(Tail(s))

\* lines 375-379
cleanText(text) == dropSymbols(dropGroups(dropCodes(paragraphBreaks(text))))

\* lines 371-389
convertMText(e, t) ==
    IF hasText(e) /\ Has(e, "insertionPoint")
    THEN << [type |-> "TEXT",
             text |-> cleanText(e.text),
             position |-> apply(t, e.insertionPoint),
             textHeight |-> truthyOr(e, "textHeight", DefaultTextHeight)
                               * max(t.scaleX, t.scaleY),
             rotation |-> truthyOr(e, "rotation", 0) + t.rotation] >>
    ELSE Null

\* Math.abs
abs(d) == IF d < 0 THEN -d ELSE d

\* line 407: the closing tolerance is 1 / 10000 of a drawing unit
InverseTolerance == 10000

\* line 407: Math.abs(d) > 0.0001 for a difference d of two coordinates
apart(d) == abs(d) * InverseTolerance > Unit

\* a vertex loop that is never closed, and one that gets its first point
\* again whatever its last point is
LoopAsGiven(path, t) ==
    [k \in DOMAIN path.vertices |->
        apply(t, P3(orDefault(field(path.vertices[k], "x"), 0),
                    orDefault(field(path.vertices[k], "y"), 0), 0))]

LoopWithFirstAgain(path, t) ==
    IF ~(Has(path, "isClosed") /\ path.isClosed = FALSE)
    THEN Append(LoopAsGiven(path, t), LoopAsGiven(path, t)[1])
    ELSE LoopAsGiven(path, t)

\* lines 398-411: the loop of a path given by its vertices; it is closed
\* with its first point unless the path says isClosed: false or the last
\* point is within the tolerance of the first
vertexLoop(path, t) ==
    LET loop == [k \in DOMAIN path.vertices |->
                    apply(t, P3(orDefault(field(path.vertices[k], "x"), 0),
                                orDefault(field(path.vertices[k], "y"), 0), 0))]
        first == loop[1]
        last == loop[Len(loop)]
    IN  IF ~(Has(path, "isClosed") /\ path.isClosed = FALSE) /\ Len(loop) > 0
        THEN IF apart(first.x - last.x) \/ apart(first.y - last.y)
             THEN Append(loop, first) ELSE loop
        ELSE loop

\* line 432: const steps = 10
Steps == 10

\* lines 435-437: the point center + radius * (cos a, sin a), the angle a
\* counted in 1 / Steps of a quarter turn.  At a whole quarter turn, or with
\* radius 0, the point is computed; otherwise it is kept in polar form about
\* (cx, cy), with the radius made positive and the angle taken within a turn
arcPoint(center, radius, a) ==
    IF radius = 0 \/ a % Steps = 0
    THEN [x |-> center.x + radius * Cos(a \div Steps),
          y |-> center.y + radius * Sin(a \div Steps),
          z |-> center.z]
    ELSE [cx |-> center.x, cy |-> center.y, z |-> center.z,
          r |-> abs(radius),
          a |-> (IF radius < 0 THEN a + 2 * Steps ELSE a) % (TwoPi * Steps)]

\* lines 420-439: the points one edge contributes
edgePoints(edge, t) ==
    IF Has(edge, "type") /\ edge.type = 1 /\ Has(edge, "start") /\ Has(edge, "end")
    THEN << apply(t, P3(edge.start.x, edge.start.y, 0)),
            apply(t, P3(edge.end.x, edge.end.y, 0)) >>
    ELSE IF Has(edge, "type") /\ edge.type = 2 /\ Has(edge, "center")
    THEN LET startAngle == valueOr(edge, "startAngle", 0)
             endAngle == valueOr(edge, "endAngle", TwoPi)
             radius == valueOr(edge, "radius", 0) * max(t.scaleX, t.scaleY)
             center == apply(t, P3(edge.center.x, edge.center.y, 0))
         IN  [k \in 1..(Steps + 1) |->
                 arcPoint(center, radius,
                          Steps * startAngle + (endAngle - startAngle) * (k - 1)
                             + Steps * t.rotation)]
    ELSE <<>>

\* the edges' points appended last edge first
RECURSIVE EdgeLoopBackwards(_, _)
EdgeLoopBackwards(edges, t) ==
    IF edges = <<>> THEN <<>>
    ELSE EdgeLoopBackwards(Tail(edges), t) \o edgePoints(Head(edges), t)

\* lines 413-441: the loop of a path given by its edges
RECURSIVE edgeLoop(_, _)
edgeLoop(edges, t) ==
    IF edges = <<>> THEN <<>>
    ELSE edgePoints(Head(edges), t) \o edgeLoop(Tail(edges), t)

\* lines 396-441: the loop of one boundary path
pathLoop(path, t) ==
    IF hasItems(path, "vertices") THEN vertexLoop(path, t)
    ELSE IF hasItems(path, "edges") THEN edgeLoop(path.edges, t)
    ELSE <<>>

\* the loops of the paths with the empty ones kept
RECURSIVE AllLoops(_, _)
AllLoops(paths, t) ==
    IF paths = <<>> THEN <<>>
    ELSE << pathLoop(Head(paths), t) >> \o AllLoops(Tail(paths), t)

\* lines 395-446: the loops of the paths, the empty ones left out
RECURSIVE pathLoops(_, _)
pathLoops(paths, t) ==
    IF paths = <<>> THEN <<>>
    ELSE (IF Len(pathLoop(Head(paths), t)) > 0 THEN << pathLoop(Head(paths), t) >> ELSE <<>>)
            \o pathLoops(Tail(paths), t)

\* line 452: e.color ?? 256
DefaultColor == 256

\* lines 391-457
convertHatch(e, t) ==
    IF hasItems(e, "boundaryPaths") /\ Len(pathLoops(e.boundaryPaths, t)) > 0
    THEN << [type |-> "HATCH",
             loops |-> pathLoops(e.boundaryPaths, t),
             color |-> valueOr(e, "color", DefaultColor)] >>
    ELSE Null

\* line 460: e.name || e.blockName
blockNameOf(e) ==
    IF Has(e, "name") /\ e.name # "" THEN e.name
    ELSE IF Has(e, "blockName") THEN e.blockName ELSE ""

\* a lookup that finds a block only as long as the running loop has
\* collected nothing
LookupOnce(defs, blockName) ==
    IF stack # <<>> /\ stack[Len(stack)].result # <<>> THEN <<>>
    ELSE IF blockName \in DOMAIN defs THEN defs[blockName]
    ELSE IF toUpperCase(blockName) \in DOMAIN defs THEN defs[toUpperCase(blockName)]
    ELSE <<>>

\* a lookup that falls back to some entry of the map instead of undefined
LookupAny(defs, blockName) ==
    IF blockName \in DOMAIN defs THEN defs[blockName]
    ELSE IF toUpperCase(blockName) \in DOMAIN defs THEN defs[toUpperCase(blockName)]
    ELSE IF DOMAIN defs # {} THEN defs[CHOOSE k \in DOMAIN defs : TRUE]
    ELSE <<>>

\* line 462: blockDefinitions.get(blockName) || blockDefinitions.get(blockName.toUpperCase())
\* (undefined is the empty list: the map never holds an empty list, line 94)
lookup(defs, blockName) ==
    IF blockName \in DOMAIN defs THEN defs[blockName]
    ELSE IF toUpperCase(blockName) \in DOMAIN defs THEN defs[toUpperCase(blockName)]
    ELSE <<>>

\* lines 459-463: the INSERT case goes on to expand a block
expands(entity, depth, defs) ==
    /\ hasType(entity)
    /\ ~tooDeep(depth)
    /\ toUpperCase(entity.type) = "INSERT"
    /\ blockNameOf(entity) # ""
    /\ Len(lookup(defs, blockNameOf(entity))) > 0

\* what convertEntity returns when it does not expand a block
\* (null is the empty sequence, a single entity a sequence of one)
convertEntity(entity, t, depth, defs) ==
    IF ~hasType(entity) THEN Null
    ELSE IF tooDeep(depth) THEN Null
    ELSE LET type == toUpperCase(entity.type) IN
         CASE type = "LINE" -> convertLine(entity, t)
           [] type \in {"SOLID", "TRACE"} -> convertSolid(entity, t)
           [] type = "CIRCLE" -> convertCircle(entity, t)
           [] type = "ARC" -> convertArc(entity, t)
           [] type = "ELLIPSE" -> convertEllipse(entity, t)
           [] type = "TEXT" -> convertText(entity, t)
           [] type = "MTEXT" -> convertMText(entity, t)
           [] type = "LWPOLYLINE" -> convertLwPolyline(entity, t)
           [] type = "POLYLINE2D" -> convertPolyline2d(entity, t)
           [] type = "POLYLINE3D" -> convertPolyline3d(entity, t)
           [] type = "SPLINE" -> convertSpline(entity, t)
           [] type = "POINT" -> convertPoint(entity, t)
           [] type = "3DFACE" -> convert3dFace(entity, t)
           [] type \in {"DIMENSION", "LEADER", "MLEADER"} -> convertDimension(entity, t)
           [] type \in {"RAY", "XLINE"} -> convertRay(entity, t)
           [] type = "HATCH" -> convertHatch(entity, t)
           [] OTHER -> Null

\* a placement that leaves the insertion point out
PlacementAtOrigin(e) ==
    [offset |-> [x |-> 0, y |-> 0, z |-> 0],
     rotation |-> IF Has(e, "rotation") THEN e.rotation ELSE 0,
     scaleX |-> IF Has(e, "xScale") THEN e.xScale ELSE 1,
     scaleY |-> IF Has(e, "yScale") THEN e.yScale ELSE 1,
     scaleZ |-> IF Has(e, "zScale") THEN e.zScale ELSE 1]

\* lines 464-468: the placement an INSERT carries, with its defaults
insertTransform(e) ==
    Transform(IF Has(e, "insertionPoint") THEN e.insertionPoint ELSE Origin,
              IF Has(e, "rotation") THEN e.rotation ELSE 0,
              IF Has(e, "xScale") THEN e.xScale ELSE 1,
              IF Has(e, "yScale") THEN e.yScale ELSE 1,
              IF Has(e, "zScale") THEN e.zScale ELSE 1)

\* lines 470-475: the combined transformation handed to the members
compose(parent, child) ==
    Transform(apply(parent, child.offset),
              parent.rotation + child.rotation,
              parent.scaleX * child.scaleX,
              parent.scaleY * child.scaleY,
              parent.scaleZ * child.scaleZ)

----------------------------------------------------------------------------
(* parseDwg, lines 47-130, and the INSERT case of convertEntity,           *)
(* lines 459-500, as steps of one synchronous call                         *)

\* Map.prototype.set
mapSet(m, k, v) == [x \in (DOMAIN m) \cup {k} |-> IF x = k THEN v ELSE m[x]]

\* lines 94-97: one block record entered into the map
register(defs, block) ==
    IF block.name # "" /\ Len(block.entities) > 0
    THEN mapSet(mapSet(defs, block.name, block.entities),
                toUpperCase(block.name), block.entities)
    ELSE defs

\* an activation of a loop over a member list: parseDwg's loop (line 114)
\* or the loop of an INSERT (line 478).  path is history: the positions of
\* the entities whose expansion led here
Frame(members, t, depth, path) ==
    [members |-> members, idx |-> 1, t |-> t, depth |-> depth,
     result |-> <<>>, path |-> path]

Top == stack[Len(stack)]

Cur == Top.members[Top.idx]

\* history: where in the document an emitted entity came from
Tag(ents, path) == [k \in DOMAIN ents |-> [src |-> path] @@ ents[k]]

\* the emitted entity without its history
Geometry(ent) == [f \in (DOMAIN ent) \ {"src"} |-> ent[f]]

Geometries(ents) == [k \in DOMAIN ents |-> Geometry(ents[k])]

SetTop(frame) == [stack EXCEPT ![Len(stack)] = frame]

\* lines 61-82: the parser cannot produce a database; parseDwg throws
ReadFails ==
    /\ pc = "idle"
    /\ queue # <<>>
    /\ ~Head(queue).readable
    /\ results' = Append(results, [status |-> "rejected", file |-> Head(queue),
                                   entities |-> <<>>])
    /\ queue' = Tail(queue)
    /\ UNCHANGED <<pc, db, blockDefinitions, bi, stack, inFlight, ui>>

\* lines 47-91: the database is read and the map is replaced by a new one
Start ==
    /\ pc = "idle"
    /\ queue # <<>>
    /\ Head(queue).readable
    /\ db' = Head(queue)
    /\ queue' = Tail(queue)
    /\ blockDefinitions' = <<>>
    /\ bi' = 1
    /\ pc' = "build"
    /\ UNCHANGED <<stack, results, inFlight, ui>>

\* lines 93-98: one iteration of the loop over the block records
RegisterBlock ==
    /\ pc = "build"
    /\ bi <= Len(db.blocks)
    /\ blockDefinitions' = register(blockDefinitions, db.blocks[bi])
    /\ bi' = bi + 1
    /\ UNCHANGED <<queue, pc, db, stack, results, inFlight, ui>>

\* lines 102-114: the loop over the top-level entities begins
BeginLoop ==
    /\ pc = "build"
    /\ bi > Len(db.blocks)
    /\ stack' = << Frame(db.entities, Identity, 0, <<>>) >>
    /\ pc' = "convert"
    /\ UNCHANGED <<queue, db, blockDefinitions, bi, results, inFlight, ui>>

\* lines 115-122 / 479-494: a member is converted without expansion and
\* what it returns is pushed onto the loop's result
ConvertMember ==
    /\ pc = "convert"
    /\ Top.idx <= Len(Top.members)
    /\ ~expands(Cur, Top.depth, blockDefinitions)
    /\ stack' = SetTop([Top EXCEPT
            !.result = Push(@, Tag(convertEntity(Cur, Top.t, Top.depth, blockDefinitions),
                                   Append(Top.path, Top.idx))),
            !.idx = @ + 1])
    /\ UNCHANGED <<queue, pc, db, blockDefinitions, bi, results, inFlight, ui>>

\* lines 459-478: an INSERT resolves its block and starts the loop over
\* the block's members with the combined transform and depth + 1
EnterInsert ==
    /\ pc = "convert"
    /\ Top.idx <= Len(Top.members)
    /\ expands(Cur, Top.depth, blockDefinitions)
    /\ stack' = Append(stack,
            Frame(lookup(blockDefinitions, blockNameOf(Cur)),
                  compose(Top.t, insertTransform(Cur)),
                  Top.depth + 1,
                  Append(Top.path, Top.idx)))
    /\ UNCHANGED <<queue, pc, db, blockDefinitions, bi, results, inFlight, ui>>

\* line 496 and lines 116-122 / 488-494: the INSERT returns its result
\* (or null when it is empty) and the caller pushes it
ReturnInsert ==
    /\ pc = "convert"
    /\ Len(stack) > 1
    /\ Top.idx > Len(Top.members)
    /\ LET caller == stack[Len(stack) - 1]
       IN  stack' = [SubSeq(stack, 1, Len(stack) - 1) EXCEPT ![Len(stack) - 1] =
                [caller EXCEPT !.result = Push(@, Top.result), !.idx = @ + 1]]
    /\ UNCHANGED <<queue, pc, db, blockDefinitions, bi, results, inFlight, ui>>

\* line 129: parseDwg returns { entities }
Finish ==
    /\ pc = "convert"
    /\ Len(stack) = 1
    /\ Top.idx > Len(Top.members)
    /\ results' = Append(results, [status |-> "resolved", file |-> db,
                                   entities |-> Top.result])
    /\ stack' = <<>>
    /\ pc' = "idle"
    /\ UNCHANGED <<queue, db, blockDefinitions, bi, inFlight, ui>>

Next ==
    \/ ReadFails
    \/ Start
    \/ RegisterBlock
    \/ BeginLoop
    \/ ConvertMember
    \/ EnterInsert
    \/ ReturnInsert
    \/ Finish

----------------------------------------------------------------------------
(* The parsed files the calls are made on *)

Line(a, b) == [type |-> "LINE", startPoint |-> a, endPoint |-> b]

Insert(name) == [type |-> "INSERT", name |-> name]

InsertAt(name, t) ==
    [type |-> "INSERT", name |-> name, insertionPoint |-> t.offset,
     rotation |-> t.rotation, xScale |-> t.scaleX, yScale |-> t.scaleY,
     zScale |-> t.scaleZ]

Block(name, entities) == [name |-> name, entities |-> entities]

File(entities, blocks) == [readable |-> TRUE, entities |-> entities, blocks |-> blocks]

Unreadable == [readable |-> FALSE, entities |-> <<>>, blocks |-> <<>>]

InsertInto(seq, k, e) == SubSeq(seq, 1, k - 1) \o <<e>> \o SubSeq(seq, k, Len(seq))

\* a chain of n blocks B1..Bn, each one Line and an Insert of the next
BlockName(k) == "B" \o ToString(k)

ChainLine(k) == Line(At2(k, 0), At2(k, 1))

ChainBlocks(n) ==
    [k \in 1..n |-> Block(BlockName(k),
        IF k < n THEN << ChainLine(k), Insert(BlockName(k + 1)) >>
                 ELSE << ChainLine(k) >>)]

ChainFile(n) == File(<< Insert(BlockName(1)) >>, ChainBlocks(n))

\* blocks that insert themselves, directly and through each other
SelfFile ==
    File(<< ChainLine(0), [type |-> "insert", name |-> "S"], ChainLine(9) >>,
         << Block("S", << ChainLine(1), Insert("S"), [type |-> "line",
                          startPoint |-> At2(2, 0), endPoint |-> At2(2, 1)] >>) >>)

CycleFile ==
    File(<< Insert("X"), ChainLine(0), Insert("Y") >>,
         << Block("X", << Insert("Y"), ChainLine(1) >>),
            Block("Y", << ChainLine(2), [type |-> "INSERT", blockName |-> "X"] >>) >>)

DepthFiles == { ChainFile(ChainLen), ChainFile(3), SelfFile, CycleFile }

\* nested placements: N1 inserted at ts[1] holds an Insert of N2 at ts[2] ...
\* and the innermost block holds the leaf
Offsets == { Origin, At2(10, 10), At3(3, -2, 5) }

Rotations == { 0, 1, 2, 3 }

Scales == { <<1, 1, 1>>, <<2, 2, 1>>, <<2, 1, 1>>, <<-1, 3, 2>> }

Placements ==
    { Transform(o, r, s[1], s[2], s[3]) : o \in Offsets, r \in Rotations, s \in Scales }

FewPlacements ==
    { Transform(At2(10, 10), 1, 2, 1, 1), Transform(Origin, 1, 2, 2, 1),
      Transform(At3(3, -2, 5), 3, -1, 3, 2), Transform(At2(10, 10), 2, 2, 1, 1),
      Transform(Origin, 0, 1, 1, 1) }

Leaves == { Line(At2(0, 0), At2(1, 0)), Line(At3(2, 3, 1), At2(-1, 4)) }

NestName(k) == "N" \o ToString(k)

NestFile(ts, leaf) ==
    File(<< InsertAt(NestName(1), ts[1]) >>,
         [k \in 1..Len(ts) |-> Block(NestName(k),
             IF k < Len(ts) THEN << InsertAt(NestName(k + 1), ts[k + 1]) >>
                            ELSE << leaf >>)])

NestFiles ==
    { NestFile(<<a>>, l) : a \in Placements, l \in Leaves }
      \cup { NestFile(<<a, b>>, l) : a \in Placements, b \in Placements, l \in Leaves }
      \cup { NestFile(<<a, b, c>>, l) :
                a \in FewPlacements, b \in FewPlacements, c \in FewPlacements, l \in Leaves }

\* shapes with a size or an angle, at the top level and under one and two
\* nested placements; the scales include mirrored and uneven ones
Circle(c, r) == [type |-> "CIRCLE", center |-> c, radius |-> r]

Arc(c, r, a, b) ==
    [type |-> "ARC", center |-> c, radius |-> r, startAngle |-> a, endAngle |-> b]

Text(s, p, h) == [type |-> "TEXT", text |-> s, startPoint |-> p, textHeight |-> h]

MText(s, p, h) == [type |-> "MTEXT", text |-> s, insertionPoint |-> p, textHeight |-> h]

Angles == 0..TwoPi

ArcLeaves ==
    { Arc(At2(1, 2), 2 * Unit, a, b) : a \in Angles, b \in Angles }
      \cup { [type |-> "ARC", center |-> At2(1, 2), radius |-> Unit],
             [type |-> "ARC", center |-> At3(0, 0, 1), radius |-> Unit, startAngle |-> 1],
             [type |-> "ARC", center |-> At2(0, 0), radius |-> Unit, endAngle |-> 3] }

\* MTEXT strings holding a paragraph break, a brace group and a %%d code in
\* every order, with literal text before, between and after them
Markup == << <<"\\", "P">>, <<"{", "x", "}">>, <<"%", "%", "d">> >>

MarkupTexts ==
    { <<"a">> \o Markup[o[1]] \o <<"b">> \o Markup[o[2]] \o <<"c">> \o Markup[o[3]] \o <<"d">> :
          o \in { q \in (1..3) \X (1..3) \X (1..3) : {q[1], q[2], q[3]} = 1..3 } }
      \cup { Markup[1] \o Markup[2] \o Markup[3] \o <<"H", "i">> }

TextLeaves ==
    { MText(s, At2(0, 1), Unit) : s \in MarkupTexts } \cup
    { Text(<<"H", "i">>, At2(1, 0), 3 * Unit),
      [type |-> "TEXT", text |-> <<"H", "i">>, startPoint |-> At2(1, 0)],
      [type |-> "TEXT", text |-> <<"H">>, startPoint |-> At2(0, 0), textHeight |-> 0,
       rotation |-> 1],
      MText(<<"\\", "f", "A", ";", "H", "\\", "P", "i">>, At2(0, 1), Unit),
      [type |-> "MTEXT", text |-> <<"{", "x", "}", "H", "%", "%", "C">>,
       insertionPoint |-> At3(2, 0, 1), rotation |-> 2] }

\* one entity or more of every kind the converter has a case for
KindLeaves ==
    { [type |-> "LWPOLYLINE", vertices |-> << At2(0, 0), At2(1, 0), [x |-> Unit] >>,
       flag |-> 1, elevation |-> 2 * Unit],
      [type |-> "POLYLINE2D", vertices |-> << [point |-> At3(0, 0, 1)], At2(1, 1) >>,
       flag |-> 0],
      [type |-> "POLYLINE3D", vertices |-> << [point |-> At3(0, 0, 1)], At3(1, 1, 2) >>],
      [type |-> "SPLINE", controlPoints |-> << At2(0, 0), At3(1, 1, 1) >>,
       fitPoints |-> << At2(5, 5) >>],
      [type |-> "SPLINE", controlPoints |-> <<>>, fitPoints |-> << At2(5, 5), At2(6, 5) >>],
      [type |-> "POINT", location |-> At3(1, 2, 3)],
      [type |-> "POINT", point |-> At2(1, 2)],
      [type |-> "3DFACE", corner1 |-> At3(0, 0, 1), corner2 |-> At3(1, 0, 1),
       corner3 |-> At3(0, 1, 1)],
      [type |-> "TRACE", corner1 |-> At2(0, 0), corner2 |-> At2(1, 0),
       corner3 |-> At2(1, 1), corner4 |-> At2(0, 1)],
      [type |-> "DIMENSION", defPoint |-> At2(0, 0), textMidPoint |-> At2(2, 1)],
      [type |-> "LEADER", defPoint |-> At2(1, 0), textMidPoint |-> At2(2, 2)],
      [type |-> "RAY", basePoint |-> At2(1, 1), unitDirection |-> [x |-> 1, y |-> 0]],
      [type |-> "XLINE", basePoint |-> At3(0, 1, 1),
       unitDirection |-> [x |-> 0, y |-> -1, z |-> 0]] }

Ellipse(c, m, ratio) ==
    [type |-> "ELLIPSE", center |-> c, majorAxisEndPoint |-> m, axisRatio |-> ratio]

EllipseLeaves ==
    { Ellipse(At2(1, 2), At2(2, 0), Unit \div 2),
      Ellipse(At3(0, 0, 1), At3(1, 1, 0), Unit),
      Ellipse(At2(1, 2), At2(0, 3), 0),
      [type |-> "ELLIPSE", center |-> At2(1, 2), majorAxisEndPoint |-> At3(2, 1, 1),
       startAngle |-> 1, endAngle |-> 3] }

ShapeLeaves ==
    { Circle(At2(1, 2), Unit), Circle(At3(0, 0, 1), 3 * Unit) }
      \cup ArcLeaves \cup TextLeaves \cup KindLeaves \cup Leaves \cup EllipseLeaves

ShapeScales ==
    { <<1, 1, 1>>, <<2, 1, 1>>, <<-1, 3, 2>>, <<-1, -1, 1>>, <<-2, -1, 1>>, <<1, -1, 1>> }

ShapePlacements ==
    { Transform(o, r, s[1], s[2], s[3]) :
          o \in { Origin, At2(10, 10) }, r \in { 0, 1, 2 }, s \in ShapeScales }

FewShapePlacements ==
    { Transform(At2(10, 10), 1, 2, 1, 1), Transform(Origin, 0, -1, -1, 1),
      Transform(At3(3, -2, 5), 2, -1, 3, 2), Transform(Origin, 0, 1, 1, 1) }

\* a block holding one ellipse inserted twice, at placements that differ in
\* the insertion point only
MovedFile(a, o, leaf) ==
    File(<< InsertAt("E", a), InsertAt("E", [a EXCEPT !.offset = o]) >>,
         << Block("E", << leaf >>) >>)

MovedFiles ==
    { MovedFile(a, o, l) : a \in ShapePlacements, o \in Offsets, l \in EllipseLeaves }

ShapeFiles ==
    { File(<< l >>, <<>>) : l \in ShapeLeaves }
      \cup { NestFile(<<a>>, l) : a \in ShapePlacements, l \in ShapeLeaves }
      \cup { NestFile(<<a, b>>, l) :
                a \in FewShapePlacements, b \in FewShapePlacements, l \in ShapeLeaves }

\* SOLID, TRACE and 3DFACE entities with every choice of present corners
CornerNames == << "corner1", "corner2", "corner3", "corner4" >>

CornerPoints == << At3(0, 0, 1), At2(2, 0), At3(2, 1, 0), At2(0, 1) >>

Cornered(type, present) ==
    [f \in {"type"} \cup { CornerNames[i] : i \in present } |->
        IF f = "type" THEN type
        ELSE CornerPoints[CHOOSE i \in present : CornerNames[i] = f]]

CornerLeaves ==
    { Cornered(type, present) :
          type \in {"SOLID", "TRACE", "3DFACE", "solid"}, present \in SUBSET (1..4) }

CornerFiles ==
    { File(<< l >>, <<>>) : l \in CornerLeaves }
      \cup { NestFile(<<a>>, l) : a \in FewShapePlacements, l \in CornerLeaves }

\* polylines of the three kinds with flags that have bit 0 and other bits
\* set and clear, and without a flag
PolyFlags == { 0, 1, 2, 3, 8, 9, 128, 129, -1, -2 }

PolyVertices ==
    { << At2(3, 1) >>, << At2(0, 0), At2(2, 0), At2(2, 1) >>,
      << [point |-> At3(1, 1, 1)], At2(0, 2) >> }

PolyLeaves ==
    { [type |-> k, vertices |-> v, flag |-> f] :
          k \in {"LWPOLYLINE", "POLYLINE2D", "POLYLINE3D"}, v \in PolyVertices, f \in PolyFlags }
      \cup { [type |-> k, vertices |-> v] :
                k \in {"LWPOLYLINE", "POLYLINE2D", "POLYLINE3D"}, v \in PolyVertices }
      \cup { [type |-> k, vertices |-> <<>>, flag |-> 1] :
                k \in {"LWPOLYLINE", "POLYLINE2D", "POLYLINE3D"} }

PolyFiles ==
    { File(<< l >>, <<>>) : l \in PolyLeaves }
      \cup { NestFile(<<a>>, l) : a \in FewShapePlacements, l \in PolyLeaves }

\* hatches: boundary paths given by vertices (with vertices a fraction of
\* the closing tolerance apart) and by edges, paths that yield no point,
\* and hatches of several paths
Hatch(paths) == [type |-> "HATCH", boundaryPaths |-> paths]

HatchPoints ==
    { At2(0, 0), At2(1, 0), At2(1, 1), P2(1, 0), P2(0, 1), P2(3, 0), [y |-> Unit] }

SeqsUpTo(S, n) == UNION { [1..k -> S] : k \in 1..n }

VertexPaths ==
    { [vertices |-> v] : v \in SeqsUpTo(HatchPoints, 3) }
      \cup { [vertices |-> v, isClosed |-> c] :
                v \in SeqsUpTo(HatchPoints, 3), c \in BOOLEAN }

LineEdge(a, b) == [type |-> 1, start |-> a, end |-> b]

ArcEdge(c, r, a, b) ==
    [type |-> 2, center |-> c, radius |-> r, startAngle |-> a, endAngle |-> b]

HatchEdges ==
    { LineEdge(At2(0, 0), At2(1, 0)), LineEdge(At2(1, 0), At2(0, 1)),
      LineEdge(At2(0, 1), At2(0, 0)),
      ArcEdge(At2(0, 0), Unit, 0, TwoPi), ArcEdge(At2(1, 0), Unit, 0, 2),
      [type |-> 2, center |-> At2(1, 1)],
      [type |-> 3, start |-> At2(0, 0), end |-> At2(1, 0)],
      [type |-> 1, start |-> At2(0, 0)],
      [type |-> 2, radius |-> Unit] }

EdgePaths == { [edges |-> e] : e \in SeqsUpTo(HatchEdges, 3) }

ZeroPaths ==
    { [vertices |-> <<>>], [edges |-> <<>>], [isClosed |-> TRUE],
      [edges |-> << [type |-> 3, start |-> At2(0, 0), end |-> At2(1, 0)] >>],
      [vertices |-> <<>>, edges |-> << [type |-> 1, start |-> At2(0, 0)] >>] }

FewPaths ==
    ZeroPaths
      \cup { [vertices |-> << At2(0, 0), At2(1, 0), At2(1, 1) >>],
             [vertices |-> << At2(0, 0), At2(1, 0), P2(0, 1) >>],
             [vertices |-> << At2(0, 0), At2(1, 0), P2(1, 0) >>, isClosed |-> TRUE],
             [vertices |-> << At2(0, 0), At2(1, 0) >>, isClosed |-> FALSE],
             [vertices |-> << At2(1, 1) >>],
             [vertices |-> <<>>, edges |-> << LineEdge(At2(0, 0), At2(1, 0)) >>],
             [edges |-> << LineEdge(At2(0, 0), At2(1, 0)), LineEdge(At2(1, 0), At2(0, 1)),
                           LineEdge(At2(0, 1), At2(0, 0)) >>],
             [edges |-> << ArcEdge(At2(0, 0), Unit, 0, 2), LineEdge(At2(-1, 0), At2(1, 0)) >>],
             [edges |-> << ArcEdge(At2(0, 0), Unit, 1, 3) >>],
             [vertices |-> << At2(0, 0), At2(2, 0), At2(2, 2) >>,
              edges |-> << LineEdge(At2(0, 0), At2(1, 0)), ArcEdge(At2(0, 0), Unit, 0, 2) >>] }

HatchLeaves ==
    { Hatch(<< p >>) : p \in VertexPaths \cup EdgePaths }
      \cup { Hatch(<< p, q >>) : p \in FewPaths, q \in FewPaths }
      \cup { [type |-> "HATCH"], Hatch(<<>>),
             [type |-> "HATCH", color |-> 1,
              boundaryPaths |-> << [vertices |-> << At2(0, 0), At2(1, 0), At2(1, 1) >>] >>] }

\* a hatch whose paths all yield nothing before one with a path that does
DropFile ==
    File(<< Hatch(<< [edges |-> <<>>], [vertices |-> <<>>] >>),
            Hatch(<< [isClosed |-> TRUE],
                     [vertices |-> << At2(0, 0), At2(1, 0), At2(1, 1) >>],
                     [edges |-> << [type |-> 1, start |-> At2(0, 0)] >>] >>) >>,
         <<>>)

HatchFiles ==
    { File(<< l >>, <<>>) : l \in HatchLeaves }
      \cup { DropFile }
      \cup { NestFile(<<a>>, Hatch(<< p >>)) : a \in FewShapePlacements, p \in FewPaths }
      \cup { NestFile(<<a, b>>, Hatch(<< p >>)) :
                a \in FewShapePlacements, b \in FewShapePlacements, p \in FewPaths }

\* the same block inserted twice at the same placement, in the top-level
\* list and in a block, with other expansions in between
RepeatFile(a, b) ==
    File(<< InsertAt("Q", a), InsertAt("P", b), Circle(At2(1, 2), Unit),
            InsertAt("Q", a), InsertAt("P", b) >>,
         << Block("P", << InsertAt("Q", b), ChainLine(1), InsertAt("R", a),
                          InsertAt("Q", b) >>),
            Block("Q", << ChainLine(2), Arc(At2(1, 2), 2 * Unit, 1, 3), Insert("R") >>),
            Block("R", << Text(<<"H", "i">>, At2(1, 0), 3 * Unit) >>) >>)

RepeatFiles == { RepeatFile(a, b) : a \in FewShapePlacements, b \in FewShapePlacements }

\* block tables whose names differ in letter case only, in every order of
\* registration, with and without members
Names == { "col", "COL", "Col" }

NameLine(n) == CASE n = "col" -> ChainLine(1) [] n = "COL" -> ChainLine(2) [] OTHER -> ChainLine(3)

NameOrders ==
    { s \in UNION { [1..n -> Names] : n \in 1..3 } :
        \A i \in DOMAIN s, j \in DOMAIN s : s[i] = s[j] => i = j }

NameFiles ==
    { File(<< Insert(n), ChainLine(0) >>,
           [k \in DOMAIN s |-> Block(s[k], IF s[k] \in full THEN << NameLine(s[k]) >> ELSE <<>>)]) :
        n \in Names \cup {"none"}, s \in NameOrders, full \in SUBSET Names }

\* entities convertEntity drops
BadEntities ==
    { [type |-> "LINE", startPoint |-> At2(0, 0)],
      [handle |-> 7],
      [type |-> "INSERT"],
      Insert("none"),
      [type |-> "SOLID", corner1 |-> At2(0, 0), corner2 |-> At2(1, 0)],
      [type |-> "VIEWPORT"] }

BaseFile ==
    File(<< ChainLine(0), Insert("P"),
            [type |-> "SOLID", corner1 |-> At2(0, 0), corner2 |-> At2(1, 0), corner4 |-> At2(0, 1)],
            Insert("Q") >>,
         << Block("P", << ChainLine(1), Insert("Q"), ChainLine(2) >>),
            Block("Q", << ChainLine(3) >>) >>)

\* the file f with entity e put at position k of the top-level list (b = 0)
\* or of the member list of block record b
WithEntity(f, b, k, e) ==
    IF b = 0 THEN [f EXCEPT !.entities = InsertInto(@, k, e)]
    ELSE [f EXCEPT !.blocks[b].entities = InsertInto(@, k, e)]

Places(f) ==
    { <<0, k>> : k \in 1..(Len(f.entities) + 1) }
      \cup { <<b, k>> : b \in DOMAIN f.blocks, k \in 1..4 }

\* a file with a dropped entity in it, followed by the file without it
BadPairs ==
    { << WithEntity(BaseFile, pl[1], pl[2], e), BaseFile >> :
          pl \in { q \in Places(BaseFile) : q[1] = 0 \/ q[2] <= Len(BaseFile.blocks[q[1]].entities) + 1 },
          e \in BadEntities }
      \cup { << WithEntity(ChainFile(ChainLen), MaxDepth + 1, k, ChainLine(99)), ChainFile(ChainLen) >> :
                k \in 1..3 }

\* the calls on files that are about blocks: nesting, recursion, names, drops
BlockCalls ==
    { <<f>> : f \in DepthFiles \cup NestFiles \cup NameFiles \cup RepeatFiles }
      \cup BadPairs
      \cup { << Unreadable, ChainFile(3) >> }

Calls ==
    BlockCalls
      \cup { <<f>> : f \in ShapeFiles \cup HatchFiles \cup MovedFiles \cup CornerFiles
                           \cup PolyFiles }

NoDb == File(<<>>, <<>>)

\* editorStore.ts lines 12-13 and part_003 lines 579-581: the store and the
\* editor area as constructed; null is the empty path
NullPath == ""

NoContent == [from |-> NullPath, text |-> ""]

EditorIdle ==
    /\ openFiles = <<>>
    /\ activeFilePath = NullPath
    /\ content = NoContent
    /\ fileType = "text"
    /\ loading = FALSE
    /\ loads = <<>>

\* part_003 lines 13-23: the FEA editor as constructed
EmptyModel == [nodes |-> <<>>, elements |-> <<>>, loads |-> <<>>]

NoNode == -1

FeaIdle ==
    /\ model = EmptyModel
    /\ mode = "MODELING"
    /\ activeTool = "SELECT"
    /\ selectedItems = <<>>
    /\ tempNodeId = NoNode

Init ==
    /\ queue \in Calls
    /\ pc = "idle"
    /\ db = NoDb
    /\ blockDefinitions = <<>>
    /\ bi = 1
    /\ stack = <<>>
    /\ results = <<>>
    /\ calls = <<>>
    /\ running = 0
    /\ libreDwgInstance = 0
    /\ EditorIdle /\ FeaIdle

Spec == Init /\ [][Next]_vars

InitBlocks ==
    /\ queue \in BlockCalls
    /\ pc = "idle"
    /\ db = NoDb
    /\ blockDefinitions = <<>>
    /\ bi = 1
    /\ stack = <<>>
    /\ results = <<>>
    /\ calls = <<>>
    /\ running = 0
    /\ libreDwgInstance = 0
    /\ EditorIdle /\ FeaIdle

\* the call is synchronous: once started it runs on until it returns; the
\* calls are those on the files that are about blocks
FairSpec == InitBlocks /\ [][Next]_vars /\ WF_vars(Next)

----------------------------------------------------------------------------
(* Several parseDwg calls in flight at once (CadViewer awaits parseDwg per  *)
(* opened file).  A call runs on the one thread until it reaches an await   *)
(* (line 52 in parseDwg, line 34 in getLibreDwgInstance) or returns; only   *)
(* then another call runs.  Each call has its own locals (db, the loops),   *)
(* and all share blockDefinitions and libreDwgInstance.                     *)

\* a position where an await stands and a loop position taken for one
AwaitsInLoop(label) == label \in {"creating", "awaiting", "convert"}

\* the positions of a call at which it is suspended in an await:
\* "creating" is line 34 (await LibreDwg.create), "awaiting" line 52
awaits(label) == label \in {"creating", "awaiting"}

\* who holds the thread after call c has stepped to the position label
holder(c, label) == IF awaits(label) \/ label = "done" THEN 0 ELSE c

\* call c may take a step: it holds the thread, or nobody does
turn(c) == running \in {0, c}

Call0(file) ==
    [file |-> file, pc |-> "called", create |-> "none", instance |-> 0,
     db |-> NoDb, bi |-> 1, stack |-> <<>>, status |-> "pending", entities |-> <<>>]

Step(c, rec) ==
    /\ calls' = [calls EXCEPT ![c] = rec]
    /\ running' = holder(c, rec.pc)

\* lines 47-52 and 30-34 / 41: parseDwg is called and runs up to its first await
Invoke(c) ==
    /\ turn(c)
    /\ calls[c].pc = "called"
    /\ IF libreDwgInstance = 0
       THEN Step(c, [calls[c] EXCEPT !.pc = "creating", !.create = "pending"])
       ELSE Step(c, [calls[c] EXCEPT !.pc = "awaiting", !.instance = libreDwgInstance])
    /\ UNCHANGED <<queue, pc, db, blockDefinitions, bi, stack, results, libreDwgInstance, ui>>

\* lines 34-41: LibreDwg.create resolves; the instance is stored and returned
Created(c) ==
    /\ turn(c)
    /\ calls[c].pc = "creating"
    /\ libreDwgInstance' = c
    /\ Step(c, [calls[c] EXCEPT !.pc = "awaiting", !.create = "done", !.instance = c])
    /\ UNCHANGED <<queue, pc, db, blockDefinitions, bi, stack, results, ui>>

\* lines 36-39 and 53-56: LibreDwg.create rejects and parseDwg throws
CreateFails(c) ==
    /\ turn(c)
    /\ calls[c].pc = "creating"
    /\ Step(c, [calls[c] EXCEPT !.pc = "done", !.create = "failed", !.status = "rejected"])
    /\ UNCHANGED <<queue, pc, db, blockDefinitions, bi, stack, results, libreDwgInstance, ui>>

\* lines 52-72: the call resumes, the data cannot be read and parseDwg throws
ResumeFails(c) ==
    /\ turn(c)
    /\ calls[c].pc = "awaiting"
    /\ ~calls[c].file.readable
    /\ Step(c, [calls[c] EXCEPT !.pc = "done", !.status = "rejected"])
    /\ UNCHANGED <<queue, pc, db, blockDefinitions, bi, stack, results, libreDwgInstance, ui>>

\* lines 52-91: the call resumes, reads its database and replaces the map
Resume(c) ==
    /\ turn(c)
    /\ calls[c].pc = "awaiting"
    /\ calls[c].file.readable
    /\ blockDefinitions' = <<>>
    /\ Step(c, [calls[c] EXCEPT !.pc = "build", !.db = calls[c].file, !.bi = 1])
    /\ UNCHANGED <<queue, pc, db, bi, stack, results, libreDwgInstance, ui>>

\* lines 93-98
RegisterBlockOf(c) ==
    /\ turn(c)
    /\ calls[c].pc = "build"
    /\ calls[c].bi <= Len(calls[c].db.blocks)
    /\ blockDefinitions' = register(blockDefinitions, calls[c].db.blocks[calls[c].bi])
    /\ Step(c, [calls[c] EXCEPT !.bi = @ + 1])
    /\ UNCHANGED <<queue, pc, db, bi, stack, results, libreDwgInstance, ui>>

\* lines 102-114
BeginLoopOf(c) ==
    /\ turn(c)
    /\ calls[c].pc = "build"
    /\ calls[c].bi > Len(calls[c].db.blocks)
    /\ Step(c, [calls[c] EXCEPT !.pc = "convert",
                                !.stack = << Frame(calls[c].db.entities, Identity, 0, <<>>) >>])
    /\ UNCHANGED <<queue, pc, db, blockDefinitions, bi, stack, results, libreDwgInstance, ui>>

\* lines 115-122 / 459-500: one step of the conversion loops of call c
StepLoopOf(c) ==
    /\ turn(c)
    /\ calls[c].pc = "convert"
    /\ LET st == calls[c].stack
           top == st[Len(st)]
           cur == top.members[top.idx]
           caller == st[Len(st) - 1]
       IN  IF top.idx <= Len(top.members)
           THEN IF expands(cur, top.depth, blockDefinitions)
                THEN Step(c, [calls[c] EXCEPT !.stack = Append(st,
                         Frame(lookup(blockDefinitions, blockNameOf(cur)),
                               compose(top.t, insertTransform(cur)),
                               top.depth + 1, Append(top.path, top.idx)))])
                ELSE Step(c, [calls[c] EXCEPT !.stack[Len(st)] = [top EXCEPT
                         !.result = Push(@, Tag(convertEntity(cur, top.t, top.depth,
                                                              blockDefinitions),
                                                Append(top.path, top.idx))),
                         !.idx = @ + 1]])
           ELSE /\ Len(st) > 1
                /\ Step(c, [calls[c] EXCEPT !.stack =
                      [SubSeq(st, 1, Len(st) - 1) EXCEPT ![Len(st) - 1] =
                          [caller EXCEPT !.result = Push(@, top.result), !.idx = @ + 1]]])
    /\ UNCHANGED <<queue, pc, db, blockDefinitions, bi, stack, results, libreDwgInstance, ui>>

\* lines 124-129: the call returns { entities }
FinishOf(c) ==
    /\ turn(c)
    /\ calls[c].pc = "convert"
    /\ Len(calls[c].stack) = 1
    /\ calls[c].stack[1].idx > Len(calls[c].stack[1].members)
    /\ Step(c, [calls[c] EXCEPT !.pc = "done", !.status = "resolved",
                                !.entities = calls[c].stack[1].result, !.stack = <<>>])
    /\ UNCHANGED <<queue, pc, db, blockDefinitions, bi, stack, results, libreDwgInstance, ui>>

NextInFlight ==
    \/ \E c \in DOMAIN calls : Invoke(c)
    \/ \E c \in DOMAIN calls : Created(c)
    \/ \E c \in DOMAIN calls : CreateFails(c)
    \/ \E c \in DOMAIN calls : ResumeFails(c)
    \/ \E c \in DOMAIN calls : Resume(c)
    \/ \E c \in DOMAIN calls : RegisterBlockOf(c)
    \/ \E c \in DOMAIN calls : BeginLoopOf(c)
    \/ \E c \in DOMAIN calls : StepLoopOf(c)
    \/ \E c \in DOMAIN calls : FinishOf(c)

\* files whose blocks have the same names with different members
KeyFile(k) ==
    File(<< Insert("K"), ChainLine(k), InsertAt("m", Transform(At2(k, 0), 1, 2, 1, 1)) >>,
         << Block("K", << ChainLine(10 + k), Insert("M") >>),
            Block("M", << ChainLine(20 + k) >>) >>)

\* a file that inserts blocks it has no record of
BareFile == File(<< Insert("K"), ChainLine(5), Insert("M") >>, <<>>)

FilesInFlight == { KeyFile(1), KeyFile(2), BareFile, Unreadable }

InitInFlight ==
    /\ calls \in { << Call0(p[1]), Call0(p[2]) >> :
                        p \in { q \in FilesInFlight \X FilesInFlight : q[1] # q[2] } }
    /\ running = 0
    /\ libreDwgInstance = 0
    /\ blockDefinitions = <<>>
    /\ queue = <<>>
    /\ pc = "idle"
    /\ db = NoDb
    /\ bi = 1
    /\ stack = <<>>
    /\ results = <<>>
    /\ EditorIdle /\ FeaIdle

SpecInFlight == InitInFlight /\ [][NextInFlight]_vars

----------------------------------------------------------------------------
(* The editor store (editorStore.ts) and the editor area (part_003, lines  *)
(* 577-688) that shows the active file.  A store call that changes         *)
(* activeFilePath makes the area's effect (lines 583-629) start a read of  *)
(* the new active file; the reads are awaited and complete in any order.   *)

Paths == { "a.dwg", "b.dxf", "c.fea", "d.txt" }

\* at most this many reads are awaited at once
MaxLoads == 2

Range(list) == { list[i] : i \in DOMAIN list }

\* the list never says a path is there
NeverIncludes(list, path) == FALSE

\* editorStore.ts line 15: state.openFiles.includes(path)
includes(list, path) == path \in Range(list)

\* the active file stays whatever is closed
KeepActive(active, newOpenFiles, path) == active

\* editorStore.ts lines 26-28
newActiveFile(active, newOpenFiles, path) ==
    IF active = path
    THEN (IF Len(newOpenFiles) > 0 THEN newOpenFiles[Len(newOpenFiles)] ELSE NullPath)
    ELSE active

\* part_003 line 588: activeFilePath.split('.').pop()?.toLowerCase()
extension(path) ==
    CASE path = "a.dwg" -> "dwg"
      [] path = "b.dxf" -> "dxf"
      [] path = "c.fea" -> "fea"
      [] OTHER -> "txt"

\* part_003 lines 583-586 and 629: the effect runs when activeFilePath has
\* changed and starts a read unless there is no active file
startsLoad(path) == path # activeFilePath /\ path # NullPath

\* part_003 lines 584-593, 607, 611, 615: loadContent up to its await
loadContent(path) ==
    IF startsLoad(path)
    THEN /\ Len(loads) < MaxLoads
         /\ loading' = TRUE
         /\ loads' = Append(loads, path)
         /\ UNCHANGED <<content, fileType>>
    ELSE UNCHANGED <<content, fileType, loading, loads>>

\* editorStore.ts lines 14-22
OpenFile(path) ==
    /\ openFiles' = IF ~includes(openFiles, path) THEN Append(openFiles, path) ELSE openFiles
    /\ activeFilePath' = path
    /\ loadContent(path)
    /\ UNCHANGED <<converter, inFlight, fea>>

\* editorStore.ts lines 23-34
CloseFile(path) ==
    LET newOpenFiles == SelectSeq(openFiles, LAMBDA q : q # path)
    IN  /\ openFiles' = newOpenFiles
        /\ activeFilePath' = newActiveFile(activeFilePath, newOpenFiles, path)
        /\ loadContent(newActiveFile(activeFilePath, newOpenFiles, path))
        /\ UNCHANGED <<converter, inFlight, fea>>

\* editorStore.ts line 35
SetActiveFile(path) ==
    /\ activeFilePath' = path
    /\ loadContent(path)
    /\ UNCHANGED <<openFiles, converter, inFlight, fea>>

\* TabBar.tsx lines 12-19: a click on the tab of an open file
ClickTab(path) == includes(openFiles, path) /\ SetActiveFile(path)

\* part_003 lines 593-624: the read of loads[i] returns data, returns
\* nothing (main.ts lines 87-106 return null when the read fails) or throws
LoadDone(i, outcome) ==
    LET path == loads[i]
        ext == extension(path)
    IN  /\ content' =
              [from |-> path,
               text |-> IF outcome = "throws" THEN "Error loading file"
                        ELSE IF outcome = "data" THEN "data"
                        ELSE IF ext = "dwg" THEN "Error loading DWG file" ELSE ""]
        /\ fileType' =
              IF outcome = "throws" THEN "text"
              ELSE IF ext = "dwg" THEN (IF outcome = "data" THEN "dwg" ELSE "text")
              ELSE IF ext \in {"dxf", "fea"} THEN ext
              ELSE "text"
        /\ loading' = FALSE
        /\ loads' = SubSeq(loads, 1, i - 1) \o SubSeq(loads, i + 1, Len(loads))
        /\ UNCHANGED <<openFiles, activeFilePath, converter, inFlight, fea>>

Outcomes == { "data", "nothing", "throws" }

InitEditor ==
    /\ EditorIdle /\ FeaIdle
    /\ calls = <<>> /\ running = 0 /\ libreDwgInstance = 0
    /\ queue = <<>> /\ pc = "idle" /\ db = NoDb /\ blockDefinitions = <<>>
    /\ bi = 1 /\ stack = <<>> /\ results = <<>>

\* the store called in every way
NextStore ==
    \/ \E path \in Paths : OpenFile(path)
    \/ \E path \in Paths : CloseFile(path)
    \/ \E path \in Paths : SetActiveFile(path)
    \/ \E i \in DOMAIN loads, outcome \in Outcomes : LoadDone(i, outcome)

SpecStore == InitEditor /\ [][NextStore]_vars

\* the store called as the sidebar and the tab bar call it
NextEditor ==
    \/ \E path \in Paths : OpenFile(path)
    \/ \E path \in Paths : CloseFile(path)
    \/ \E path \in Paths : ClickTab(path)
    \/ \E i \in DOMAIN loads, outcome \in Outcomes : LoadDone(i, outcome)

SpecEditor == InitEditor /\ [][NextEditor]_vars

----------------------------------------------------------------------------
(* The FEA editor (part_003, lines 12-330).  A node is its id (the         *)
(* coordinates play no part in what is checked), an element its id and     *)
(* its two node ids, a load its id and its node.  An element carries, as   *)
(* history, whether it was read from a file or drawn with the ELEMENT      *)
(* tool.  The properties panel (lines 332-478), which edits the            *)
(* coordinates and supports of a selected node and its loads, and only in  *)
(* MODELING mode, is not part of the model.                                *)

\* the editor holds at most this many nodes and elements drawn
MaxNodes == 2

MaxDrawn == 1

Node(id) == [id |-> id]

Element(id, a, b, by) == [id |-> id, nodes |-> <<a, b>>, by |-> by]

Load(id, node) == [id |-> id, node |-> node]

Ids(list) == { list[i].id : i \in DOMAIN list }

Maximum(S) == CHOOSE n \in S : \A m \in S : m <= n

\* line 92
nextId(list) == IF Len(list) > 0 THEN Maximum(Ids(list)) + 1 ELSE 1

\* a test that lets every click edit in every mode
EditsInEveryMode(m) == FALSE

\* lines 96 and 123: mode === 'ANALYSIS_RESULT'
selectionOnly(m) == m = "ANALYSIS_RESULT"

\* the contents the editor is given: model files, a result file, JSON
\* without nodes, text that is not JSON, and nothing
ModelOne ==
    [nodes |-> << Node(1), Node(2) >>,
     elements |-> << Element(1, 1, 2, "file") >>,
     loads |-> << Load(1, 2) >>]

ModelTwo == [nodes |-> << Node(1) >>, elements |-> <<>>, loads |-> <<>>]

Contents ==
    { [text |-> "model", json |-> TRUE, parsed |-> ModelOne, analysisResult |-> FALSE],
      [text |-> "model", json |-> TRUE, parsed |-> ModelTwo, analysisResult |-> FALSE],
      [text |-> "result", json |-> TRUE, parsed |-> ModelOne, analysisResult |-> TRUE],
      [text |-> "{}", json |-> TRUE, parsed |-> [other |-> 0], analysisResult |-> FALSE],
      [text |-> "garbage", json |-> FALSE],
      [text |-> ""] }

\* lines 30-51: the effect on [content]
ContentLoad(c) ==
    /\ IF c.text # "" /\ c.json
       THEN IF c.analysisResult
            THEN model' = c.parsed /\ mode' = "ANALYSIS_RESULT"
            ELSE /\ model' = IF Has(c.parsed, "nodes") THEN c.parsed ELSE EmptyModel
                 /\ mode' = "MODELING"
       ELSE model' = EmptyModel /\ UNCHANGED mode
    /\ UNCHANGED <<activeTool, selectedItems, tempNodeId, converter, inFlight, editor>>

\* lines 184-204: the tool buttons, there in MODELING mode only (line 181)
SelectTool(tool) ==
    /\ mode = "MODELING"
    /\ activeTool' = tool
    /\ tempNodeId' = NoNode
    /\ UNCHANGED <<model, mode, selectedItems, converter, inFlight, editor>>

\* lines 217-227: the Back to Modeling button
BackToModeling ==
    /\ mode = "ANALYSIS_RESULT"
    /\ mode' = "MODELING"
    /\ UNCHANGED <<model, activeTool, selectedItems, tempNodeId, converter, inFlight, editor>>

\* lines 95-117
handlePlaneClick ==
    /\ IF selectionOnly(mode)
       THEN selectedItems' = <<>> /\ UNCHANGED model
       ELSE IF activeTool = "NODE"
       THEN /\ Len(model.nodes) < MaxNodes
            /\ model' = [model EXCEPT !.nodes = Append(@, Node(nextId(model.nodes)))]
            /\ UNCHANGED selectedItems
       ELSE IF activeTool = "SELECT"
       THEN selectedItems' = <<>> /\ UNCHANGED model
       ELSE UNCHANGED <<model, selectedItems>>
    /\ UNCHANGED <<mode, activeTool, tempNodeId, converter, inFlight, editor>>

\* lines 119-157, for a click on a node on display (lines 278-293)
handleNodeClick(nodeId, shiftKey) ==
    LET item == [type |-> "node", id |-> nodeId]
        drawn == Len(SelectSeq(model.elements, LAMBDA el : el.by = "tool"))
    IN  /\ nodeId \in Ids(model.nodes)
        /\ IF selectionOnly(mode)
           THEN selectedItems' = << item >> /\ UNCHANGED <<model, tempNodeId>>
           ELSE IF activeTool = "SELECT"
           THEN /\ selectedItems' =
                     IF shiftKey
                     THEN IF item \in Range(selectedItems)
                          THEN SelectSeq(selectedItems, LAMBDA i : i # item)
                          ELSE Append(selectedItems, item)
                     ELSE << item >>
                /\ UNCHANGED <<model, tempNodeId>>
           ELSE IF activeTool = "ELEMENT"
           THEN IF tempNodeId = NoNode
                THEN tempNodeId' = nodeId /\ UNCHANGED <<model, selectedItems>>
                ELSE IF tempNodeId = nodeId
                THEN UNCHANGED <<model, selectedItems, tempNodeId>>
                ELSE /\ drawn < MaxDrawn
                     /\ model' = [model EXCEPT !.elements =
                           Append(@, Element(nextId(model.elements), tempNodeId, nodeId, "tool"))]
                     /\ tempNodeId' = NoNode
                     /\ UNCHANGED selectedItems
           ELSE UNCHANGED <<model, selectedItems, tempNodeId>>
        /\ UNCHANGED <<mode, activeTool, converter, inFlight, editor>>

\* lines 296-299: an element is on display when both its nodes are found
onDisplay(el) == el.nodes[1] \in Ids(model.nodes) /\ el.nodes[2] \in Ids(model.nodes)

\* lines 159-162, for a click on an element on display
handleElementClick(elementId) ==
    /\ \E i \in DOMAIN model.elements :
          model.elements[i].id = elementId /\ onDisplay(model.elements[i])
    /\ selectedItems' = << [type |-> "element", id |-> elementId] >>
    /\ UNCHANGED <<model, mode, activeTool, tempNodeId, converter, inFlight, editor>>

Tools == { "SELECT", "NODE", "ELEMENT" }

NextFea ==
    \/ \E c \in Contents : ContentLoad(c)
    \/ \E tool \in Tools : SelectTool(tool)
    \/ BackToModeling
    \/ handlePlaneClick
    \/ \E nodeId \in Ids(model.nodes), shiftKey \in BOOLEAN : handleNodeClick(nodeId, shiftKey)
    \/ \E elementId \in Ids(model.elements) : handleElementClick(elementId)

SpecFea == InitEditor /\ [][NextFea]_vars

----------------------------------------------------------------------------
(* Notions the properties below are stated with *)

\* the INSERT whose expansion frame k (k >= 2) is
InsertOfFrame(k) == stack[k - 1].members[stack[k - 1].idx]

\* frame k has run through its member list
Exhausted(k) == stack[k].idx > Len(stack[k].members)

\* every list of emitted entities there is: the loops' results so far and
\* what the finished calls returned
Outputs ==
    { stack[k].result : k \in DOMAIN stack } \cup { results[k].entities : k \in DOMAIN results }

\* the nesting depth an emitted entity was converted at
DepthOf(ent) == Len(ent.src) - 1

IsLine(e) ==
    /\ hasType(e) /\ toUpperCase(e.type) = "LINE"
    /\ Has(e, "startPoint") /\ Has(e, "endPoint")

IsSolid(e) ==
    /\ hasType(e) /\ toUpperCase(e.type) \in {"SOLID", "TRACE"}
    /\ Cardinality({ c \in {"corner1", "corner2", "corner3", "corner4"} : Has(e, c) }) >= 3

WellFormed(e) == IsLine(e) \/ IsSolid(e)

IsInsert(e) == hasType(e) /\ toUpperCase(e.type) = "INSERT"

\* the placement written on an INSERT: its insertion point (the origin when
\* absent, z = 0 when absent), rotation (0 when absent) and scales (1 when
\* absent)
PointOf(e) ==
    IF Has(e, "insertionPoint")
    THEN P3(e.insertionPoint.x, e.insertionPoint.y,
            IF Has(e.insertionPoint, "z") THEN e.insertionPoint.z ELSE 0)
    ELSE P3(0, 0, 0)

FieldOr(e, f, d) == IF Has(e, f) THEN e[f] ELSE d

Placement(e) ==
    Transform(PointOf(e), FieldOr(e, "rotation", 0),
              FieldOr(e, "xScale", 1), FieldOr(e, "yScale", 1), FieldOr(e, "zScale", 1))

\* path p comes before path q in document order
Before(p, q) ==
    \E i \in 1..(IF Len(p) < Len(q) THEN Len(p) ELSE Len(q)) :
        /\ \A j \in 1..(i - 1) : p[j] = q[j]
        /\ p[i] < q[i]

Finished(f) == \E k \in DOMAIN results : results[k].file = f /\ results[k].status = "resolved"

OutputOf(f) == results[CHOOSE k \in DOMAIN results : results[k].file = f].entities

----------------------------------------------------------------------------
(* C1: whatever the block table (blocks that insert themselves or each     *)
(* other included), no activation of convertEntity runs at a depth beyond  *)
(* 11, and every parseDwg call that is made returns: the queue of calls    *)
(* drains and the converter is idle again.                                 *)

C1_DepthBounded == \A k \in DOMAIN stack : stack[k].depth <= MaxDepth + 1

C1_Terminates ==
    /\ []C1_DepthBounded
    /\ <>[](pc = "idle" /\ queue = <<>>)
    /\ [](pc # "idle" => <>(pc = "idle"))

\* a call on a file whose blocks insert themselves has returned, with
\* entities from the deepest level that is converted
C1_Witness ==
    \E f \in {SelfFile, CycleFile} :
        /\ Finished(f)
        /\ \E k \in DOMAIN OutputOf(f) : DepthOf(OutputOf(f)[k]) = MaxDepth

----------------------------------------------------------------------------
(* C2: a well-formed member is emitted if and only if its depth is at most *)
(* 10: no emitted entity has a depth beyond 10, every well-formed member a *)
(* loop has passed at depth <= 10 is in the loop's result and none passed  *)
(* at a greater depth is; and the call on the chain of blocks B1..B15      *)
(* returns exactly the Lines of B1..B10.                                   *)

C2_DepthLimit ==
    /\ \A out \in Outputs : \A k \in DOMAIN out : DepthOf(out[k]) <= MaxDepth
    /\ \A k \in DOMAIN stack : \A m \in 1..(stack[k].idx - 1) :
          WellFormed(stack[k].members[m]) =>
             ( (stack[k].depth <= MaxDepth)
                 <=> \E j \in DOMAIN stack[k].result :
                        stack[k].result[j].src = Append(stack[k].path, m) )
    /\ Finished(ChainFile(ChainLen)) =>
          Geometries(OutputOf(ChainFile(ChainLen)))
             = [k \in 1..MaxDepth |->
                  [type |-> "LINE", vertices |-> << At3(k, 0, 0), At3(k, 1, 0) >>]]

C2_Witness ==
    /\ Finished(ChainFile(ChainLen))
    /\ Len(OutputOf(ChainFile(ChainLen))) = MaxDepth
    /\ ChainLen > MaxDepth

----------------------------------------------------------------------------
(* C3: every list of emitted entities is in document order: an entity that *)
(* comes from an earlier top-level entity, or from an earlier member at    *)
(* any level of nesting, stands before one that comes from a later one,    *)
(* and what an INSERT's loop has collected comes from that INSERT.         *)

C3_DocumentOrder ==
    /\ \A out \in Outputs : \A a \in DOMAIN out, b \in DOMAIN out :
          a < b => Before(out[a].src, out[b].src)
    /\ \A k \in DOMAIN stack : \A j \in DOMAIN stack[k].result :
          SubSeq(stack[k].result[j].src, 1, Len(stack[k].path)) = stack[k].path

\* a returned list with entities of three top-level entities, the middle
\* one an INSERT expanded through several levels
C3_Witness ==
    /\ Finished(SelfFile)
    /\ \E a \in DOMAIN OutputOf(SelfFile), b \in DOMAIN OutputOf(SelfFile),
          c \in DOMAIN OutputOf(SelfFile) :
          /\ a < b /\ b < c
          /\ OutputOf(SelfFile)[a].src = <<1>>
          /\ DepthOf(OutputOf(SelfFile)[b]) >= 2
          /\ OutputOf(SelfFile)[c].src = <<3>>

----------------------------------------------------------------------------
(* C4: transformPoint scales, then rotates about the origin, then          *)
(* translates: every vertex of every emitted LINE is                       *)
(* offset + R(rotation) (scaleX x, scaleY y), z = scaleZ z + offset.z, of  *)
(* the raw point and the loop's transform, and so is the offset an INSERT  *)
(* hands to its members; the Line (0,0)-(1,0) inserted at (10,10) with     *)
(* scale (2,2,1) and a quarter turn is emitted as (10,10)-(10,12).         *)

\* the quarter-turn rotation R(q) of (u, v), written out
Turned(q, u, v) ==
    CASE q % 4 = 0 -> <<u, v>>
      [] q % 4 = 1 -> <<-v, u>>
      [] q % 4 = 2 -> <<-u, -v>>
      [] OTHER -> <<v, -u>>

ZOf(p) == IF Has(p, "z") THEN p.z ELSE 0

ScaleRotateTranslate(t, p) ==
    LET r == Turned(t.rotation, t.scaleX * p.x, t.scaleY * p.y)
    IN  P3(t.offset.x + r[1], t.offset.y + r[2], t.scaleZ * ZOf(p) + t.offset.z)

QuarterTurnInsert == NestFile(<< Transform(At2(10, 10), 1, 2, 2, 1) >>, Line(At2(0, 0), At2(1, 0)))

C4_ScaleRotateTranslate ==
    /\ \A k \in DOMAIN stack : \A j \in DOMAIN stack[k].result :
          LET ent == stack[k].result[j]
              raw == stack[k].members[ent.src[Len(ent.src)]]
          IN  (ent.type = "LINE" /\ Len(ent.src) = Len(stack[k].path) + 1 /\ IsLine(raw)) =>
                 ent.vertices = << ScaleRotateTranslate(stack[k].t, raw.startPoint),
                                   ScaleRotateTranslate(stack[k].t, raw.endPoint) >>
    /\ \A k \in 2..Len(stack) :
          stack[k].t.offset =
             ScaleRotateTranslate(stack[k - 1].t, PointOf(InsertOfFrame(k)))
    /\ Finished(QuarterTurnInsert) =>
          Geometries(OutputOf(QuarterTurnInsert))
             = << [type |-> "LINE", vertices |-> << At3(10, 10, 0), At3(10, 12, 0) >>] >>

C4_Witness ==
    /\ Finished(QuarterTurnInsert)
    /\ Len(OutputOf(QuarterTurnInsert)) = 1

----------------------------------------------------------------------------
(* C5: a top-level INSERT with rotation 0 and scale 1 at insertion point p *)
(* whose block holds one Line from a to b and nothing else yields exactly  *)
(* one entity, the LINE from a + p to b + p.                               *)

Plus(a, p) == P3(a.x + p.x, a.y + p.y, ZOf(a) + ZOf(p))

PlainInsertOfOneLine ==
    /\ Len(stack) = 2
    /\ Exhausted(2)
    /\ Placement(InsertOfFrame(2)).rotation = 0
    /\ Placement(InsertOfFrame(2)).scaleX = 1
    /\ Placement(InsertOfFrame(2)).scaleY = 1
    /\ Placement(InsertOfFrame(2)).scaleZ = 1
    /\ Len(stack[2].members) = 1
    /\ IsLine(stack[2].members[1])

C5_PlainInsert ==
    PlainInsertOfOneLine =>
        LET p == PointOf(InsertOfFrame(2))
            l == stack[2].members[1]
        IN  Geometries(stack[2].result)
               = << [type |-> "LINE",
                     vertices |-> << Plus(l.startPoint, p), Plus(l.endPoint, p) >>] >>

C5_Witness ==
    /\ PlainInsertOfOneLine
    /\ PointOf(InsertOfFrame(2)) = At3(10, 10, 0)
    /\ stack[2].members = << Line(At2(0, 0), At2(1, 0)) >>
    /\ Geometries(stack[2].result)
          = << [type |-> "LINE", vertices |-> << At3(10, 10, 0), At3(11, 10, 0) >>] >>

----------------------------------------------------------------------------
(* C6: composition of transforms is associative: for the placements A, B,  *)
(* C of three nested INSERTs, all with non-zero rotation and non-unit      *)
(* scale, the transform the innermost members receive,                     *)
(* compose(compose(A, B), C), has the same rotation, scales and offset as  *)
(* compose(A, compose(B, C)).                                              *)

Turning(t) == t.rotation # 0 /\ <<t.scaleX, t.scaleY, t.scaleZ>> # <<1, 1, 1>>

C6_Associative ==
    (Len(stack) = 4 /\ stack[4].idx = 1) =>
        LET A == Placement(InsertOfFrame(2))
            B == Placement(InsertOfFrame(3))
            C == Placement(InsertOfFrame(4))
        IN  (Turning(A) /\ Turning(B) /\ Turning(C)) =>
               /\ stack[4].t = compose(compose(A, B), C)
               /\ compose(compose(A, B), C) = compose(A, compose(B, C))

----------------------------------------------------------------------------
(* C7: nested insertions nest: for an outer INSERT placed by T1 whose      *)
(* block holds an inner INSERT placed by T2 whose block holds a Line, each *)
(* emitted vertex is T1 applied to (T2 applied to the raw point).          *)

C7_NestedPoint ==
    (Len(stack) = 3 /\ Exhausted(3) /\ Len(stack[3].members) = 1 /\ IsLine(stack[3].members[1])) =>
        LET T1 == Placement(InsertOfFrame(2))
            T2 == Placement(InsertOfFrame(3))
            l == stack[3].members[1]
        IN  /\ Len(stack[3].result) = 1
            /\ stack[3].result[1].vertices
                  = << apply(T1, apply(T2, l.startPoint)), apply(T1, apply(T2, l.endPoint)) >>

----------------------------------------------------------------------------
(* C8: an INSERT whose block name is entered in the block table neither    *)
(* under the exact name nor under its uppercased form yields no entities   *)
(* and no error: the loop it stands in goes on to its next member with its *)
(* result unchanged, and only a file the parser cannot read is rejected.   *)
(* A block record without members is not entered in the table (line 94),   *)
(* so an INSERT of it yields nothing unless its name or its uppercased     *)
(* form is entered for another record.                                     *)

\* the names the block records of file f are entered under: the name and
\* the uppercased name of every record with members
Entered(f) ==
    { f.blocks[k].name : k \in { j \in DOMAIN f.blocks : Len(f.blocks[j].entities) > 0 } }
      \cup { toUpperCase(f.blocks[k].name) :
                k \in { j \in DOMAIN f.blocks : Len(f.blocks[j].entities) > 0 } }

Unresolved(f, n) == n \notin Entered(f) /\ toUpperCase(n) \notin Entered(f)

\* the block record of the name n has no member entities
EmptyRecord(f, n) ==
    \E k \in DOMAIN f.blocks : f.blocks[k].name = n /\ Len(f.blocks[k].entities) = 0

AtInsert ==
    /\ pc = "convert"
    /\ Top.idx <= Len(Top.members)
    /\ IsInsert(Cur)
    /\ Top.depth <= MaxDepth

\* the INSERT the loop is at yields nothing and the loop goes on
SkipsMember ==
    /\ pc' = "convert"
    /\ stack' = SetTop([Top EXCEPT !.idx = @ + 1])
    /\ results' = results

NoConversionError ==
    \A k \in DOMAIN results : results[k].status = "rejected" => ~results[k].file.readable

C8_UnresolvedInsert ==
    /\ []NoConversionError
    /\ [][ (AtInsert /\ Unresolved(db, blockNameOf(Cur))) => SkipsMember ]_vars

\* C8 as stated: an INSERT yields nothing also whenever the block record of
\* its name has no member entities
C8_AsStated ==
    /\ []NoConversionError
    /\ [][ (AtInsert /\ ( Unresolved(db, blockNameOf(Cur))
                            \/ EmptyRecord(db, blockNameOf(Cur)) )) => SkipsMember ]_vars

\* an INSERT of a record without members has been skipped and the Line
\* after it converted
C8_Witness ==
    /\ pc = "convert"
    /\ Len(stack) = 1
    /\ Top.idx = 3
    /\ Top.members = << Insert("col"), ChainLine(0) >>
    /\ EmptyRecord(db, "col")
    /\ Unresolved(db, "col")
    /\ Len(Top.result) = 1

----------------------------------------------------------------------------
(* C9: block resolution tries the exact name first: an INSERT whose name   *)
(* is exactly the name of a block record with members is expanded from     *)
(* that record's member list, whatever other records there are and in      *)
(* whatever order they were registered.                                    *)

C9_ExactNameFirst ==
    \A k \in 2..Len(stack) : \A b \in DOMAIN db.blocks :
        (db.blocks[b].name = blockNameOf(InsertOfFrame(k)) /\ Len(db.blocks[b].entities) > 0)
            => stack[k].members = db.blocks[b].entities

----------------------------------------------------------------------------
(* C10: an entity that is dropped (required fields missing, an INSERT of   *)
(* an unresolved block, a shape with too few corners, an entity past the   *)
(* depth limit), at any position of the top-level list or of a block's     *)
(* member list, does not abort the conversion: the call returns, and it    *)
(* returns the entities the call on the same file without that entity      *)
(* returns.                                                                *)

BothReturned == Len(results) = 2 /\ << results[1].file, results[2].file >> \in BadPairs

C10_SiblingsUnaffected ==
    BothReturned =>
        /\ results[1].status = "resolved"
        /\ results[2].status = "resolved"
        /\ Geometries(results[1].entities) = Geometries(results[2].entities)

\* the dropped entity stood inside a block, between members that are emitted
C10_Witness ==
    /\ BothReturned
    /\ results[1].file = WithEntity(BaseFile, 1, 2, Insert("none"))
    /\ Len(results[1].entities) >= 4

----------------------------------------------------------------------------
(* C11: every emitted CIRCLE and ARC has a radius > 0 and every emitted    *)
(* TEXT a textHeight > 0, for raw shapes of positive size under every      *)
(* inbound transform that INSERT nesting produces, mirrored and uneven     *)
(* xScale / yScale included.                                               *)

C11_PositiveSizes ==
    \A out \in Outputs : \A k \in DOMAIN out :
        /\ out[k].type \in {"CIRCLE", "ARC"} => out[k].radius > 0
        /\ out[k].type = "TEXT" => out[k].textHeight > 0

----------------------------------------------------------------------------
(* C12: every emitted entity has a type of the closed set LINE, POLYLINE,  *)
(* CIRCLE, ARC, ELLIPSE, TEXT, HATCH, whatever raw kind it was converted   *)
(* from; a raw POINT in particular is emitted as a one-vertex entity of    *)
(* that set.                                                               *)

CanonicalTypes == {"LINE", "POLYLINE", "CIRCLE", "ARC", "ELLIPSE", "TEXT", "HATCH"}

C12_ClosedTypeSet ==
    \A out \in Outputs : \A k \in DOMAIN out : out[k].type \in CanonicalTypes

----------------------------------------------------------------------------
(* C13 as stated: every loop of every emitted HATCH is a closed point      *)
(* loop, its last point equal to its first, whichever boundary shape       *)
(* produced it and whatever the path's isClosed marking.                   *)

C13_AsStated ==
    \A out \in Outputs : \A k \in DOMAIN out :
        out[k].type = "HATCH" =>
            \A j \in DOMAIN out[k].loops :
                out[k].loops[j][Len(out[k].loops[j])] = out[k].loops[j][1]

\* the entities in the result of frame k that come from a member of its
\* own list, and the member such an entity comes from
Direct(k) ==
    { j \in DOMAIN stack[k].result :
        Len(stack[k].result[j].src) = Len(stack[k].path) + 1 }

RawOf(k, j) == stack[k].members[stack[k].result[j].src[Len(stack[k].path) + 1]]

\* a boundary path given by vertices; one marked isClosed: false
ByVertices(path) == Has(path, "vertices") /\ path.vertices # <<>>

MarkedOpen(path) == Has(path, "isClosed") /\ path.isClosed = FALSE

\* an edge that is a line with both ends or an arc with a center
SupportedEdge(edge) ==
    /\ Has(edge, "type")
    /\ \/ edge.type = 1 /\ Has(edge, "start") /\ Has(edge, "end")
       \/ edge.type = 2 /\ Has(edge, "center")

\* the path yields at least one point
Yields(path) ==
    \/ ByVertices(path)
    \/ /\ Has(path, "edges")
       /\ \E i \in DOMAIN path.edges : SupportedEdge(path.edges[i])

YieldingPaths(e) ==
    IF Has(e, "boundaryPaths") THEN SelectSeq(e.boundaryPaths, Yields) ELSE <<>>

\* two points within the tolerance 1 / InverseTolerance in x and in y
Near(p, q) ==
    /\ abs(p.x - q.x) * InverseTolerance <= Unit
    /\ abs(p.y - q.y) * InverseTolerance <= Unit

\* the vertex v of a path under the transform t
VertexAt(t, v) == ScaleRotateTranslate(t, P3(FieldOr(v, "x", 0), FieldOr(v, "y", 0), 0))

(* C13: every loop of an emitted HATCH that comes from a path given by     *)
(* vertices and not marked isClosed: false ends within the tolerance of    *)
(* its first point; the loop of a path marked isClosed: false is the       *)
(* transformed vertices as given.                                          *)

C13_ClosedVertexLoops ==
    \A k \in DOMAIN stack : \A j \in Direct(k) :
        LET ent == stack[k].result[j]
            paths == YieldingPaths(RawOf(k, j))
        IN  ent.type = "HATCH" =>
              /\ Len(ent.loops) = Len(paths)
              /\ \A i \in DOMAIN ent.loops :
                    ByVertices(paths[i]) =>
                       IF MarkedOpen(paths[i])
                       THEN ent.loops[i] = [n \in DOMAIN paths[i].vertices |->
                                               VertexAt(stack[k].t, paths[i].vertices[n])]
                       ELSE Near(ent.loops[i][1], ent.loops[i][Len(ent.loops[i])])

\* a triangle given by three vertices under a placement has been closed
C13_Witness ==
    Len(stack) = 2 /\ \E j \in Direct(2) :
        /\ stack[2].result[j].type = "HATCH"
        /\ RawOf(2, j).boundaryPaths = << [vertices |-> << At2(0, 0), At2(1, 0), At2(1, 1) >>] >>
        /\ stack[2].t.rotation = 1
        /\ Len(stack[2].result[j].loops[1]) = 4
        /\ stack[2].result[j].loops[1][4] = stack[2].result[j].loops[1][1]

----------------------------------------------------------------------------
(* C14: for a HATCH boundary path given by n >= 1 vertices and not marked  *)
(* isClosed: false: if the last transformed vertex is more than the        *)
(* tolerance 1e-4 away from the first in x or in y, the loop has n + 1     *)
(* points and its last point equals its first; if it is within the         *)
(* tolerance of the first in x and in y, the loop has exactly n points.    *)
(* A path of 3 non-closing points yields one loop of 4 points whose 4th    *)
(* equals the 1st.                                                         *)

\* the rule, with Differs the test that decides whether the loop is closed
VertexLoopRule(Differs(_, _)) ==
    \A k \in DOMAIN stack : \A j \in Direct(k) :
        LET ent == stack[k].result[j]
            paths == YieldingPaths(RawOf(k, j))
        IN  ent.type = "HATCH" =>
              /\ Len(ent.loops) = Len(paths)
              /\ \A i \in DOMAIN paths :
                    (ByVertices(paths[i]) /\ ~MarkedOpen(paths[i])) =>
                       LET n == Len(paths[i].vertices)
                           first == VertexAt(stack[k].t, paths[i].vertices[1])
                           last == VertexAt(stack[k].t, paths[i].vertices[n])
                           loop == ent.loops[i]
                       IN  IF Differs(first, last)
                           THEN Len(loop) = n + 1 /\ loop[n + 1] = loop[1] /\ loop[1] = first
                           ELSE Len(loop) = n

FarApart(p, q) == ~Near(p, q)

Differ(p, q) == p.x # q.x \/ p.y # q.y

ThreePoints ==
    File(<< Hatch(<< [vertices |-> << At2(0, 0), At2(1, 0), At2(1, 1) >>] >>) >>, <<>>)

TriangleClosed ==
    Finished(ThreePoints) =>
        Geometries(OutputOf(ThreePoints))
           = << [type |-> "HATCH",
                 loops |-> << << At3(0, 0, 0), At3(1, 0, 0), At3(1, 1, 0), At3(0, 0, 0) >> >>,
                 color |-> 256] >>

C14_VertexLoop == VertexLoopRule(FarApart) /\ TriangleClosed

\* C14 as stated: the loop is closed whenever the last transformed vertex
\* differs from the first in x or y at all
C14_AsStated == VertexLoopRule(Differ) /\ TriangleClosed

C14_Witness ==
    /\ Finished(ThreePoints)
    /\ Len(OutputOf(ThreePoints)) = 1
    /\ Len(OutputOf(ThreePoints)[1].loops[1]) = 4

----------------------------------------------------------------------------
(* C15: no emitted HATCH is empty: every emitted HATCH has at least one    *)
(* loop and every loop at least one point; a boundary path that yields no  *)
(* point (no vertices and no edges, or only edges of an unsupported type   *)
(* or with fields missing) contributes no loop, so the loops are as many   *)
(* as the paths that yield points; and a HATCH whose paths all yield no    *)
(* point is not emitted.                                                   *)

IsHatch(e) == hasType(e) /\ toUpperCase(e.type) = "HATCH"

C15_NoEmptyHatch ==
    /\ \A out \in Outputs : \A k \in DOMAIN out :
          out[k].type = "HATCH" =>
             /\ Len(out[k].loops) >= 1
             /\ \A i \in DOMAIN out[k].loops : Len(out[k].loops[i]) >= 1
    /\ \A k \in DOMAIN stack : \A j \in Direct(k) :
          stack[k].result[j].type = "HATCH" =>
             Len(stack[k].result[j].loops) = Len(YieldingPaths(RawOf(k, j)))
    /\ \A k \in DOMAIN stack : \A m \in 1..(stack[k].idx - 1) :
          (IsHatch(stack[k].members[m]) /\ YieldingPaths(stack[k].members[m]) = <<>>) =>
             ~\E j \in DOMAIN stack[k].result :
                  stack[k].result[j].src = Append(stack[k].path, m)

\* of two hatches the one whose paths yield nothing has been dropped and the
\* other emitted with the one loop its three paths yield
C15_Witness ==
    /\ Finished(DropFile)
    /\ Len(OutputOf(DropFile)) = 1
    /\ OutputOf(DropFile)[1].src = <<2>>
    /\ Len(OutputOf(DropFile)[1].loops) = 1

----------------------------------------------------------------------------
(* C16: every top-level entity is converted under the identity transform   *)
(* (offset 0, rotation 0, scales 1), and under it transformPoint returns   *)
(* the point it is given unchanged in x and y, with z the point's z, or 0  *)
(* when the point has no z.                                                *)

\* the point p with its z, 0 when it has none
WithZ(p) == P3(p.x, p.y, IF Has(p, "z") THEN p.z ELSE 0)

C16_IdentityTransform ==
    Len(stack) >= 1 =>
        /\ stack[1].t = Transform(P3(0, 0, 0), 0, 1, 1, 1)
        /\ \A j \in Direct(1) :
              LET ent == stack[1].result[j]
                  raw == RawOf(1, j)
              IN  /\ (ent.type = "LINE" /\ IsLine(raw)) =>
                        ent.vertices = << WithZ(raw.startPoint), WithZ(raw.endPoint) >>
                  /\ ent.type \in {"CIRCLE", "ARC", "ELLIPSE"} =>
                        ent.center = WithZ(raw.center)
                  /\ (ent.type = "TEXT" /\ Has(raw, "startPoint")) =>
                        ent.position = WithZ(raw.startPoint)

\* a top-level Line with a z on one end only has been converted
C16_Witness ==
    /\ Len(stack) = 1
    /\ stack[1].members = << Line(At3(2, 3, 1), At2(-1, 4)) >>
    /\ Len(stack[1].result) = 1
    /\ stack[1].result[1].vertices = << At3(2, 3, 1), At3(-1, 4, 0) >>

----------------------------------------------------------------------------
(* C17: converting never changes the block table or a member list: every   *)
(* step of the conversion loop leaves blockDefinitions, the database and   *)
(* the member list of every running loop as they were, so the table is at  *)
(* every moment the one that was built; and two INSERTs of the same block  *)
(* with the same placement in the same loop (hence the same inbound        *)
(* transform) yield equal entities, whatever was expanded between them.    *)

\* what the loop of frame k has collected from its member m
FromMember(k, m) ==
    LET from(e) == e.src[Len(stack[k].path) + 1] = m
    IN  Geometries(SelectSeq(stack[k].result, from))

SameInsert(a, b) ==
    /\ IsInsert(a) /\ IsInsert(b)
    /\ blockNameOf(a) = blockNameOf(b)
    /\ Placement(a) = Placement(b)

RepeatedInsertsAgree ==
    \A k \in DOMAIN stack :
        \A m \in 1..(stack[k].idx - 1), n \in 1..(stack[k].idx - 1) :
            SameInsert(stack[k].members[m], stack[k].members[n]) =>
                FromMember(k, m) = FromMember(k, n)

TableUntouched ==
    (pc = "convert") =>
        /\ blockDefinitions' = blockDefinitions
        /\ db' = db
        /\ \A k \in (DOMAIN stack) \cap (DOMAIN stack') :
              stack'[k].members = stack[k].members

----------------------------------------------------------------------------
(* C18: with two parseDwg calls for different files in flight at once,     *)
(* under every interleaving at their awaits, each call resolves its        *)
(* INSERTs against the block table built from its own file only: while a   *)
(* call is between its rebuild of blockDefinitions and the end of its      *)
(* conversion loop no step of the other call runs, the map it converts     *)
(* with is the table of its own database, and every block it expands is a  *)
(* member list of that table.                                              *)

\* the block table of file f: every record with a name and members, under
\* its name and its uppercased name, a later record replacing an earlier one
TableOf(f) ==
    LET live == { k \in DOMAIN f.blocks :
                     f.blocks[k].name # "" /\ Len(f.blocks[k].entities) > 0 }
        under(n) == { k \in live : f.blocks[k].name = n \/ toUpperCase(f.blocks[k].name) = n }
        last(n) == CHOOSE k \in under(n) : \A j \in under(n) : j <= k
    IN  [n \in { f.blocks[k].name : k \in live }
                 \cup { toUpperCase(f.blocks[k].name) : k \in live }
            |-> f.blocks[last(n)].entities]

\* call c is between its rebuild of the map and the end of its loop
Converting(c) == calls[c].pc \in {"build", "convert"}

OwnTable ==
    \A c \in DOMAIN calls :
        calls[c].pc = "convert" =>
            /\ calls[c].db = calls[c].file
            /\ blockDefinitions = TableOf(calls[c].file)
            /\ \A k \in 2..Len(calls[c].stack) :
                  LET from == calls[c].stack[k - 1]
                      n == blockNameOf(from.members[from.idx])
                      T == TableOf(calls[c].file)
                  IN  calls[c].stack[k].members
                         = IF n \in DOMAIN T THEN T[n] ELSE T[toUpperCase(n)]

NoOtherStep ==
    \A c \in DOMAIN calls :
        Converting(c) => \A d \in (DOMAIN calls) \ {c} : calls'[d] = calls[d]

C18_OwnBlockTable == []OwnTable /\ [][NoOtherStep]_vars

\* the first call expands a block inside a block of its file while the
\* second call, on a file with blocks of the same names, waits at its await
C18_Witness ==
    /\ calls # <<>>
    /\ calls[1].file = KeyFile(1)
    /\ calls[2].file = KeyFile(2)
    /\ calls[1].pc = "convert"
    /\ Len(calls[1].stack) = 3
    /\ calls[2].pc = "awaiting"

----------------------------------------------------------------------------
(* C19: for every ARC with a center and a non-zero radius, every raw       *)
(* startAngle and endAngle and every accumulated rotation, the emitted     *)
(* startAngle is the raw startAngle plus the rotation and the emitted      *)
(* endAngle the raw endAngle plus the rotation, with no wrap-around or     *)
(* normalisation.                                                          *)

C19_ArcAngles ==
    \A k \in DOMAIN stack : \A j \in Direct(k) :
        LET ent == stack[k].result[j]
            raw == RawOf(k, j)
        IN  (ent.type = "ARC" /\ Has(raw, "startAngle") /\ Has(raw, "endAngle")) =>
               /\ ent.startAngle = raw.startAngle + stack[k].t.rotation
               /\ ent.endAngle = raw.endAngle + stack[k].t.rotation

----------------------------------------------------------------------------
(* C20: the majorAxisEndPoint of an emitted ELLIPSE is the raw major-axis  *)
(* vector scaled and rotated by the inbound transform and never moved by   *)
(* its offset: the same ELLIPSE converted under two transforms that differ *)
(* in offset only has the same majorAxisEndPoint, while the centers differ *)
(* by the difference of the offsets; and the emitted axisRatio is the raw  *)
(* axisRatio.                                                              *)

Unmoved(t) == [t EXCEPT !.offset = P3(0, 0, 0)]

\* the INSERTs m and n of the top-level list place the same block and
\* differ in the insertion point only
MovedOnly(m, n) ==
    /\ IsInsert(stack[1].members[m]) /\ IsInsert(stack[1].members[n])
    /\ blockNameOf(stack[1].members[m]) = blockNameOf(stack[1].members[n])
    /\ Unmoved(Placement(stack[1].members[m])) = Unmoved(Placement(stack[1].members[n]))

EllipseAxis ==
    \A k \in DOMAIN stack : \A j \in Direct(k) :
        LET ent == stack[k].result[j]
            raw == RawOf(k, j)
        IN  ent.type = "ELLIPSE" =>
               ent.majorAxisEndPoint
                  = ScaleRotateTranslate(Unmoved(stack[k].t), raw.majorAxisEndPoint)

EllipseMoved ==
    Len(stack) = 1 =>
        \A m \in 1..(stack[1].idx - 1), n \in 1..(stack[1].idx - 1) :
            LET a == FromMember(1, m)
                b == FromMember(1, n)
                p == PointOf(stack[1].members[m])
                q == PointOf(stack[1].members[n])
            IN  (MovedOnly(m, n) /\ Len(a) = 1 /\ Len(b) = 1
                   /\ a[1].type = "ELLIPSE" /\ b[1].type = "ELLIPSE") =>
                   /\ a[1].majorAxisEndPoint = b[1].majorAxisEndPoint
                   /\ a[1].center.x - b[1].center.x = p.x - q.x
                   /\ a[1].center.y - b[1].center.y = p.y - q.y
                   /\ a[1].center.z - b[1].center.z = p.z - q.z

AxisRatioKept ==
    \A k \in DOMAIN stack : \A j \in Direct(k) :
        (stack[k].result[j].type = "ELLIPSE" /\ Has(RawOf(k, j), "axisRatio")) =>
            stack[k].result[j].axisRatio = RawOf(k, j).axisRatio

C20_EllipseAxis == EllipseAxis /\ EllipseMoved /\ AxisRatioKept

----------------------------------------------------------------------------
(* C21: an MTEXT whose text holds a paragraph break \P, a brace-delimited  *)
(* group and a %%d code is emitted as a TEXT whose string is the literal   *)
(* characters outside the three, with nothing left where one of them       *)
(* stood.                                                                  *)

\* s holds the characters of piece at position k
HoldsAt(s, piece, k) ==
    k + Len(piece) - 1 <= Len(s) /\ SubSeq(s, k, k + Len(piece) - 1) = piece

Holds(s, piece) == \E k \in DOMAIN s : HoldsAt(s, piece, k)

HoldsGroup(s) == \E k \in DOMAIN s : s[k] = "{" /\ indexFrom(s, "}", k + 1) > 0

HoldsAllThree(s) == Holds(s, <<"\\", "P">>) /\ HoldsGroup(s) /\ Holds(s, <<"%", "%", "d">>)

\* the characters of s outside its paragraph breaks, brace groups and %%d
\* codes
RECURSIVE LiteralText(_)
LiteralText(s) ==
    IF Len(s) = 0 THEN <<>>
    ELSE IF HoldsAt(s, <<"\\", "P">>, 1) THEN LiteralText(SubSeq(s, 3, Len(s)))
    ELSE IF HoldsAt(s, <<"%", "%", "d">>, 1) THEN LiteralText(SubSeq(s, 4, Len(s)))
    ELSE IF s[1] = "{" /\ indexFrom(s, "}", 2) > 0
         THEN LiteralText(SubSeq(s, indexFrom(s, "}", 2) + 1, Len(s)))
    ELSE <<s[1]>> \o LiteralText(Tail(s))

IsMText(e) ==
    /\ hasType(e) /\ toUpperCase(e.type) = "MTEXT"
    /\ hasText(e) /\ Has(e, "insertionPoint")

C21_MTextStripped ==
    \A k \in DOMAIN stack : \A j \in Direct(k) :
        (IsMText(RawOf(k, j)) /\ HoldsAllThree(RawOf(k, j).text)) =>
            /\ stack[k].result[j].type = "TEXT"
            /\ stack[k].result[j].text = LiteralText(RawOf(k, j).text)

\* what holds instead: a line feed stands where each \P stood
RECURSIVE WithoutLineFeeds(_)
WithoutLineFeeds(s) ==
    IF Len(s) = 0 THEN <<>>
    ELSE (IF s[1] = "\n" THEN <<>> ELSE <<s[1]>>) \o WithoutLineFeeds(Tail(s))

MTextButLineFeeds ==
    \A k \in DOMAIN stack : \A j \in Direct(k) :
        (IsMText(RawOf(k, j)) /\ HoldsAllThree(RawOf(k, j).text)) =>
            /\ stack[k].result[j].type = "TEXT"
            /\ WithoutLineFeeds(stack[k].result[j].text) = LiteralText(RawOf(k, j).text)
            /\ Len(stack[k].result[j].text) = Len(LiteralText(RawOf(k, j).text)) + 1

----------------------------------------------------------------------------
(* C22: the loop of a HATCH boundary path given by edges is the edges'     *)
(* points appended in the order of the edges: 2 points, start then end,    *)
(* for a line edge with both endpoints, 11 points for an arc edge with a   *)
(* center, none for any other edge; so its length is 2 * (line edges) +    *)
(* 11 * (arc edges) and the points of an edge come before those of every   *)
(* later edge.  A path with vertices and edges uses the vertices only.     *)

LineEdgeOk(edge) ==
    Has(edge, "type") /\ edge.type = 1 /\ Has(edge, "start") /\ Has(edge, "end")

ArcEdgeOk(edge) == Has(edge, "type") /\ edge.type = 2 /\ Has(edge, "center")

\* the number of points an edge is to contribute
PointsOf(edge) == IF LineEdgeOk(edge) THEN 2 ELSE IF ArcEdgeOk(edge) THEN 11 ELSE 0

\* the number of points the first n edges are to contribute
RECURSIVE PointsBefore(_, _)
PointsBefore(edges, n) ==
    IF n = 0 THEN 0 ELSE PointsBefore(edges, n - 1) + PointsOf(edges[n])

\* the point p is a sample of an arc about the center c
SampleAbout(p, c) ==
    /\ p.z = c.z
    /\ Has(p, "cx") => (p.cx = c.x /\ p.cy = c.y)

\* loop holds, edge after edge, what the edges are to contribute under t
EdgesInOrder(loop, edges, t) ==
    /\ Len(loop) = 2 * Cardinality({ i \in DOMAIN edges : LineEdgeOk(edges[i]) })
                     + 11 * Cardinality({ i \in DOMAIN edges : ArcEdgeOk(edges[i]) })
    /\ \A i \in DOMAIN edges :
          LET at == PointsBefore(edges, i - 1)
          IN  /\ LineEdgeOk(edges[i]) =>
                    /\ loop[at + 1] = VertexAt(t, edges[i].start)
                    /\ loop[at + 2] = VertexAt(t, edges[i].end)
              /\ ArcEdgeOk(edges[i]) =>
                    \A n \in 1..11 : SampleAbout(loop[at + n], VertexAt(t, edges[i].center))

\* loop holds the vertices of the path under t and at most the closing point
VerticesOnly(loop, path, t) ==
    /\ Len(loop) \in { Len(path.vertices), Len(path.vertices) + 1 }
    /\ \A n \in DOMAIN path.vertices : loop[n] = VertexAt(t, path.vertices[n])
    /\ Len(loop) > Len(path.vertices) => loop[Len(loop)] = loop[1]

----------------------------------------------------------------------------
(* C23: a SOLID, TRACE or 3DFACE with at least 3 of its four corners       *)
(* present yields one closed POLYLINE (shape = TRUE) whose vertices are    *)
(* the present corners in the order corner1..corner4; with 0, 1 or 2       *)
(* corners it yields nothing.                                              *)

IsCornered(e) == hasType(e) /\ toUpperCase(e.type) \in {"SOLID", "TRACE", "3DFACE"}

\* the corners e has, in the order corner1..corner4
PresentCorners(e) ==
    LET has(i) == Has(e, CornerNames[i])
    IN  [n \in DOMAIN SelectSeq(<<1, 2, 3, 4>>, has) |->
            e[CornerNames[SelectSeq(<<1, 2, 3, 4>>, has)[n]]]]

\* a corner under the transform t: a 3DFACE keeps the corner's z, a SOLID
\* or TRACE lies in the plane z = 0
CornerAt(e, t, p) ==
    IF toUpperCase(e.type) = "3DFACE" THEN ScaleRotateTranslate(t, p)
    ELSE ScaleRotateTranslate(t, P3(p.x, p.y, 0))

----------------------------------------------------------------------------
(* C24: an LWPOLYLINE, POLYLINE2D or POLYLINE3D with at least one vertex   *)
(* is emitted closed (shape = TRUE) exactly when bit 0 of its raw flag is  *)
(* set, whatever the other bits; without a flag it is open; and it has     *)
(* the raw vertices, as many and in the same order.                        *)

IsPolyline(e) ==
    /\ hasType(e) /\ toUpperCase(e.type) \in {"LWPOLYLINE", "POLYLINE2D", "POLYLINE3D"}
    /\ Has(e, "vertices") /\ e.vertices # <<>>

\* bit 0 of the two's complement number n
BitZero(n) == \E h \in -(abs(n))..abs(n) : n = 2 * h + 1

\* where the raw vertex v of e lies in the plane: its own x and y for an
\* LWPOLYLINE, those of v.point first for the other two kinds
PlanePoint(e, v) ==
    IF toUpperCase(e.type) # "LWPOLYLINE" /\ Has(v, "point")
    THEN P3(FieldOr(v.point, "x", FieldOr(v, "x", 0)), FieldOr(v.point, "y", FieldOr(v, "y", 0)), 0)
    ELSE P3(FieldOr(v, "x", 0), FieldOr(v, "y", 0), 0)

C24_ClosedBit ==
    \A k \in DOMAIN stack : \A m \in 1..(stack[k].idx - 1) :
        LET e == stack[k].members[m]
            out == FromMember(k, m)
        IN  IsPolyline(e) =>
              /\ Len(out) = 1
              /\ out[1].type = "POLYLINE"
              /\ out[1].shape = (Has(e, "flag") /\ BitZero(e.flag))
              /\ Len(out[1].vertices) = Len(e.vertices)
              /\ \A n \in DOMAIN e.vertices :
                    /\ out[1].vertices[n].x
                          = ScaleRotateTranslate(stack[k].t, PlanePoint(e, e.vertices[n])).x
                    /\ out[1].vertices[n].y
                          = ScaleRotateTranslate(stack[k].t, PlanePoint(e, e.vertices[n])).y

\* under a placement a POLYLINE2D of three vertices with flag 129 has been
\* emitted closed with three vertices
C24_Witness ==
    /\ Len(stack) = 2 /\ stack[2].idx = 2
    /\ stack[2].t.rotation = 1
    /\ stack[2].members[1].type = "POLYLINE2D"
    /\ Has(stack[2].members[1], "flag") /\ stack[2].members[1].flag = 129
    /\ Len(stack[2].members[1].vertices) = 3
    /\ Len(FromMember(2, 1)) = 1
    /\ FromMember(2, 1)[1].shape = TRUE
    /\ Len(FromMember(2, 1)[1].vertices) = 3

----------------------------------------------------------------------------
(* C25: after any sequence of openFile, closeFile and setActiveFile calls  *)
(* on the editor store, openFiles holds no path twice; and openFile on a   *)
(* path that is open already leaves openFiles as it is and makes that      *)
(* path the active one.                                                    *)

NoPathTwice == \A i, j \in DOMAIN openFiles : openFiles[i] = openFiles[j] => i = j

ReopenOnlyActivates ==
    \A path \in Paths :
        (OpenFile(path) /\ path \in Range(openFiles)) =>
            (openFiles' = openFiles /\ activeFilePath' = path)

C25_NoPathTwice == []NoPathTwice /\ [][ReopenOnlyActivates]_vars

\* three files are open; the first of them is active again and on display
C25_Witness ==
    /\ Len(openFiles) = 3
    /\ activeFilePath = openFiles[1]
    /\ content.from = openFiles[1]
    /\ loads = <<>>

----------------------------------------------------------------------------
(* C26: when setActiveFile is only called with a path that is open, as     *)
(* the tab bar does, activeFilePath is null exactly when openFiles is      *)
(* empty and is otherwise one of openFiles; closing the active file makes  *)
(* the last of the remaining open files active, and closing another file   *)
(* leaves activeFilePath as it is.                                         *)

ActiveIsOpen ==
    IF openFiles = <<>> THEN activeFilePath = NullPath
    ELSE activeFilePath \in Range(openFiles)

\* list without the path at position i
Without(list, i) == SubSeq(list, 1, i - 1) \o SubSeq(list, i + 1, Len(list))

\* a step that closes the open file at tab i
Closes(i) == openFiles # Without(openFiles, i) /\ openFiles' = Without(openFiles, i)

ClosingRule ==
    \A i \in DOMAIN openFiles :
        Closes(i) =>
            IF activeFilePath = openFiles[i]
            THEN activeFilePath' =
                    IF openFiles' = <<>> THEN NullPath ELSE openFiles'[Len(openFiles')]
            ELSE activeFilePath' = activeFilePath

C26_ActiveIsOpen == []ActiveIsOpen /\ [][ClosingRule]_vars

\* the active file was the first of three tabs and has been closed: the
\* last of the two that remain is active
C26_Witness ==
    /\ openFiles = << "b.dxf", "c.fea" >>
    /\ activeFilePath = "c.fea"
    /\ content.from = "a.dwg"
    /\ loads = << "c.fea" >>

----------------------------------------------------------------------------
(* C27: in the editor area, when activeFilePath changes while an earlier   *)
(* read is still awaited, then in whatever order the reads complete, once  *)
(* none is awaited the content and fileType on display are those of the    *)
(* active file; and loading is FALSE only when no read is awaited.         *)

ShowsActive ==
    (loads = <<>> /\ activeFilePath # NullPath) =>
        /\ content.from = activeFilePath
        /\ fileType \in { "text", extension(activeFilePath) }

LoadingWhileAwaited == loading = FALSE => loads = <<>>

C27_LatestLoadShown == ShowsActive /\ LoadingWhileAwaited

\* what holds instead: with no read awaited, the content on display is that
\* of the read that completed last, of a file that was active at some time
ShowsSomeRead ==
    (loads = <<>> /\ activeFilePath # NullPath) =>
        /\ content.from \in Paths
        /\ fileType \in { "text", extension(content.from) }
        /\ loading = FALSE

----------------------------------------------------------------------------
(* C28: with parseDwg calls in flight at once, LibreDwg.create is invoked  *)
(* at most once and every call uses the same LibreDwg instance; a          *)
(* creation that failed leaves the cached instance null, so that a later   *)
(* call creates again.                                                     *)

\* the calls that have invoked LibreDwg.create
Creators == { c \in DOMAIN calls : calls[c].create # "none" }

CreatedOnce == Cardinality(Creators) <= 1

SameInstance ==
    \A c, d \in DOMAIN calls :
        (calls[c].instance # 0 /\ calls[d].instance # 0) =>
            calls[c].instance = calls[d].instance

NullAfterFailure ==
    (\A c \in DOMAIN calls : calls[c].create # "done") => libreDwgInstance = 0

C28_CreatedOnce == CreatedOnce /\ SameInstance /\ NullAfterFailure

----------------------------------------------------------------------------
(* C29: in the FEA editor, after any sequence of tool selections, plane    *)
(* clicks, node clicks and content loads, every element drawn with the     *)
(* ELEMENT tool joins two distinct node ids that are both in the model's   *)
(* node list, and a pending first node (tempNodeId) is never a node the    *)
(* model does not have.                                                    *)

Drawn == SelectSeq(model.elements, LAMBDA el : el.by = "tool")

DrawnJoinTwoNodes ==
    \A i \in DOMAIN Drawn :
        /\ Drawn[i].nodes[1] # Drawn[i].nodes[2]
        /\ Drawn[i].nodes[1] \in Ids(model.nodes)
        /\ Drawn[i].nodes[2] \in Ids(model.nodes)

PendingNodeThere == tempNodeId # NoNode => tempNodeId \in Ids(model.nodes)

C29_ElementsJoinNodes == DrawnJoinTwoNodes /\ PendingNodeThere

\* what holds instead: the two ends of a drawn element differ and the
\* second is in the model, and a click on the pending node draws nothing
DrawnEndsDiffer ==
    \A i \in DOMAIN Drawn :
        Drawn[i].nodes[1] # Drawn[i].nodes[2] /\ Drawn[i].nodes[2] \in Ids(model.nodes)

SameNodeTwice ==
    [][\A nodeId \in Ids(model.nodes), shiftKey \in BOOLEAN :
          (handleNodeClick(nodeId, shiftKey) /\ mode = "MODELING"
             /\ activeTool = "ELEMENT" /\ tempNodeId = nodeId) =>
             UNCHANGED <<model, tempNodeId>>]_vars

----------------------------------------------------------------------------
(* C30: while the FEA editor is in ANALYSIS_RESULT mode no plane click,    *)
(* node click or element click changes the model (nodes, elements, loads)  *)
(* or tempNodeId, whatever tool was active when the mode was entered;      *)
(* only selectedItems changes.                                             *)

Click ==
    \/ handlePlaneClick
    \/ \E nodeId \in Ids(model.nodes), shiftKey \in BOOLEAN : handleNodeClick(nodeId, shiftKey)
    \/ \E elementId \in Ids(model.elements) : handleElementClick(elementId)

C30_SelectionOnly ==
    [][(mode = "ANALYSIS_RESULT" /\ Click) =>
          UNCHANGED <<model, tempNodeId, mode, activeTool>>]_vars

\* a result file was loaded while the ELEMENT tool had a first node
\* pending, and a node other than the pending one has been clicked since:
\* it is selected, and no element was drawn
C30_Witness ==
    /\ mode = "ANALYSIS_RESULT"
    /\ activeTool = "ELEMENT"
    /\ tempNodeId = 1
    /\ selectedItems = << [type |-> "node", id |-> 2] >>
    /\ model = ModelOne

====
